---- MODULE Spec2Model ----
(***************************************************************************)
(* Print-order admission of versatileprint: the quota ledger               *)
(* (app/services/quota_service.py, app/models/quota.py), the order         *)
(* lifecycle (app/models/order.py) and the admission controller            *)
(* (app/services/order_service.py).                                        *)
(*                                                                         *)
(* Every request runs in its own thread with its own database session.     *)
(* A request is a process; an action is a stretch of its handler that      *)
(* ends with a commit, so that concurrent requests interleave where the    *)
(* database lets them.  Reads that directly precede a write of another     *)
(* table, and consecutive writes of the append-only tables (audit log,     *)
(* notifications), are one action.  SELECT ... FOR UPDATE is a row lock    *)
(* held until the commit or rollback of the transaction that took it.      *)
(***************************************************************************)
EXTENDS Integers, Sequences, FiniteSets, Bags, TLC

(***************************************************************************)
(* Bounds of the model.                                                    *)
(***************************************************************************)
NumCalls == 2          \* concurrent create_order requests
MaxTopups == 1         \* top-ups granted
MaxRefunds == 2        \* refund_quota calls
NumStatusCalls == 3    \* concurrent change_order_status requests
MaxAssigns == 2        \* assignments and unassignments of orders
MaxLog == 2            \* audit entries written where every operation is enabled
MaxCsvCalls == 2       \* validate_and_import requests made of an import
MaxRejects == 1        \* reject_import requests granted

(***************************************************************************)
(* Configuration (config.py).                                              *)
(***************************************************************************)
DEFAULT_BW_LIMIT == 3000
DEFAULT_COLOR_LIMIT == 2000
MIN_TOPUP_AMOUNT == 1000
MAX_ACTIVE_ORDERS_DEFAULT == 10
CSV_IDEMPOTENCY_MODE == "reject"
\* QUOTA_WARNING_THRESHOLD = 0.8, kept as the fraction 4/5
ThresholdNum == 4
ThresholdDen == 5

None == 0              \* Python's None for an id (ids start at 1)

Procs == 1..NumCalls
StatusProcs == 1..NumStatusCalls

(***************************************************************************)
(* The user directory (app/models/user.py).  User management is outside    *)
(* the core; the directory is fixed.                                       *)
(***************************************************************************)
Users == (1 :> [role |-> "Client", is_active |-> TRUE]) @@
         (2 :> [role |-> "Agent", is_active |-> TRUE]) @@
         (3 :> [role |-> "Administrator", is_active |-> TRUE]) @@
         (4 :> [role |-> "Client", is_active |-> FALSE]) @@
         (5 :> [role |-> "Agent", is_active |-> FALSE]) @@
         (6 :> [role |-> "Agent", is_active |-> TRUE])

\* an id no user has
NoSuchUser == 9

UserExists(id) == id \in DOMAIN Users
is_client(id) == Users[id].role = "Client"
is_agent(id) == Users[id].role = "Agent"

(***************************************************************************)
(* Dates.  normalize_month replaces the day by 1.                          *)
(***************************************************************************)
Today == [year |-> 2025, month |-> 11, day |-> 15]
normalize_month(dt) == [dt EXCEPT !.day = 1]
get_current_month == normalize_month(Today)

VARIABLES
    quotas,         \* client_quotas table: sequence of rows, the row id is the index
    locks,          \* row locks on client_quotas: set of <<row id, owner>>
    topups,         \* quota_topups table: sequence of rows
    orders,         \* orders table: function from order id to row
    nextOrderId,    \* autoincrement of orders.id
    auditLog,       \* audit_logs table: sequence of entries
    notifications,  \* notifications table: bag of rows
    calls,          \* the create_order requests
    nRefunds,       \* refund_quota calls made
    statusCalls,    \* the change_order_status requests: position, locals and result
    results,        \* what the last call of each one-step operation returned
    config,         \* current_app.config: the settings of the deployment
    csvImports,     \* csv_imports table: function from import id to row
    csvCall         \* the validate_and_import request: position, locals and result

vars == <<quotas, locks, topups, orders, nextOrderId, auditLog, notifications,
          calls, nRefunds, statusCalls, results, config, csvImports, csvCall>>

(***************************************************************************)
(* QuotaTopup.get_topups_for_month and the sums over it.                   *)
(***************************************************************************)
\* a filter on the first day of the month alone
InMonthExact(t, client_id, month) ==
    /\ t.client_id = client_id
    /\ t.transaction_date = month

InMonth(t, client_id, month) ==
    /\ t.client_id = client_id
    /\ t.transaction_date.year = month.year
    /\ t.transaction_date.month = month.month

RECURSIVE SumTopups(_, _, _, _, _)
SumTopups(tp, client_id, month, channel, i) ==
    IF i > Len(tp) THEN 0
    ELSE (IF InMonth(tp[i], client_id, month)
          THEN (IF channel = "bw" THEN tp[i].bw_added ELSE tp[i].color_added)
          ELSE 0)
         + SumTopups(tp, client_id, month, channel, i + 1)

Max(a, b) == IF a >= b THEN a ELSE b

\* the base limit alone, as with include_topups = False
get_available_bw_base(q, tp) == Max(0, q.bw_limit - q.bw_used)

\* ClientQuota.get_total_limits
get_total_bw(q, tp) == q.bw_limit + SumTopups(tp, q.client_id, q.month, "bw", 1)
get_total_color(q, tp) == q.color_limit + SumTopups(tp, q.client_id, q.month, "color", 1)

\* ClientQuota.get_available_bw / get_available_color
get_available_bw(q, tp) == Max(0, get_total_bw(q, tp) - q.bw_used)
get_available_color(q, tp) == Max(0, get_total_color(q, tp) - q.color_used)

\* ClientQuota.can_fulfill: "OK", or the channel that is short
can_fulfill(q, tp, bw_quantity, color_quantity) ==
    IF bw_quantity > get_available_bw(q, tp) THEN "bw"
    ELSE IF color_quantity > get_available_color(q, tp) THEN "color"
    ELSE "OK"

\* ClientQuota.check_usage_threshold
bw_exceeded(q, tp) ==
    /\ get_total_bw(q, tp) > 0
    /\ q.bw_used * ThresholdDen >= get_total_bw(q, tp) * ThresholdNum
    /\ ~q.bw_alert_sent
color_exceeded(q, tp) ==
    /\ get_total_color(q, tp) > 0
    /\ q.color_used * ThresholdDen >= get_total_color(q, tp) * ThresholdNum
    /\ ~q.color_alert_sent

\* session.query(ClientQuota).filter_by(client_id, month).first(): the first
\* matching row in primary-key order, None when there is none
FirstQuota(qs, client_id, month) ==
    LET ids == {i \in 1..Len(qs) : qs[i].client_id = client_id /\ qs[i].month = month}
    IN IF ids = {} THEN None ELSE CHOOSE i \in ids : \A j \in ids : i <= j

\* the row ClientQuota.get_or_create inserts
NewQuota(client_id, month) ==
    [client_id |-> client_id, month |-> normalize_month(month),
     bw_limit |-> DEFAULT_BW_LIMIT, color_limit |-> DEFAULT_COLOR_LIMIT,
     bw_used |-> 0, color_used |-> 0,
     bw_alert_sent |-> FALSE, color_alert_sent |-> FALSE]

\* what a request holds of the quota row before it has read it
NoRow == [bw_used |-> 0, color_used |-> 0]

LockedByOther(qid, p) == \E l \in locks : l[1] = qid /\ l[2] # p

\* a count of every order of the agent, the completed ones too
get_orders_count_any_status(agent_id) ==
    Cardinality({o \in DOMAIN orders : orders[o].agent_id = agent_id})

\* User.get_active_orders_count / Order.count_active_for_agent
get_active_orders_count(agent_id) ==
    Cardinality({o \in DOMAIN orders :
        /\ orders[o].agent_id = agent_id
        /\ orders[o].status \in {"pending", "validated", "processing"}})

\* User.can_accept_order
can_accept_order(agent_id, max_limit) ==
    is_agent(agent_id) /\ get_active_orders_count(agent_id) < max_limit

\* a lookup that finds nothing
get_by_external_id_blind(ext) == None

\* Order.get_by_external_id
get_by_external_id(ext) ==
    LET ids == {o \in DOMAIN orders : orders[o].external_order_id = ext}
    IN IF ids = {} THEN None ELSE CHOOSE o \in ids : \A j \in ids : o <= j

\* Notification.create_notification
AddNotification(n, user_id, kind, order_id) ==
    n (+) SetToBag({[user_id |-> user_id, kind |-> kind, related_order_id |-> order_id]})

(***************************************************************************)
(* A create_order request.                                                 *)
(***************************************************************************)
IdleCall ==
    [pc |-> "idle", client_id |-> None, bw_quantity |-> 0, color_quantity |-> 0,
     agent_id |-> None, external_order_id |-> "", import_id |-> None, order_id |-> None,
     qid |-> None, rd |-> NoRow, alert_bw |-> FALSE, alert_color |-> FALSE,
     deducted |-> FALSE, deduct_ok |-> "none", ok |-> "none", error |-> ""]

\* a change_order_status request
IdleStatusCall ==
    [pc |-> "idle", order_id |-> None, new_status |-> "", old_status |-> "",
     ok |-> "none", error |-> "", msg_from |-> "", msg_to |-> "", msg_allowed |-> << >>]

\* the value a one-step operation returns: success or failure, the error
\* message and the numbers in it, the data returned with a success
Result(ok, error, detail, data) == [ok |-> ok, error |-> error, detail |-> detail, data |-> data]

Operations == {"check", "topup", "refund", "assign", "reject_import"}

NoResults == [op \in Operations |-> Result("none", "", << >>, << >>)]

\* a validate_and_import request that has not started
IdleCsvCall ==
    [pc |-> "idle", n |-> 0, import_id |-> None, validated_by_id |-> None,
     corrections |-> << >>, rows |-> << >>, idx |-> 0,
     imported_orders |-> << >>, import_errors |-> << >>, ok |-> "none", error |-> ""]

\* the settings of a deployment that sets nothing in its environment
DefaultConfig ==
    [CSV_IDEMPOTENCY_MODE |-> CSV_IDEMPOTENCY_MODE,
     MAX_ACTIVE_ORDERS_DEFAULT |-> MAX_ACTIVE_ORDERS_DEFAULT]

Init ==
    /\ quotas = << >>
    /\ locks = {}
    /\ topups = << >>
    /\ orders = << >>
    /\ nextOrderId = 1
    /\ auditLog = << >>
    /\ notifications = EmptyBag
    /\ calls = [p \in Procs |-> IdleCall]
    /\ nRefunds = 0
    /\ statusCalls = [s \in StatusProcs |-> IdleStatusCall]
    /\ results = NoResults
    /\ csvImports = << >>
    /\ csvCall = IdleCsvCall
    /\ config = DefaultConfig

(***************************************************************************)
(* OrderService.create_order, order_service.py lines 44-138.               *)
(***************************************************************************)
Requests ==
    { [client_id |-> 1, bw_quantity |-> 2000, color_quantity |-> 0, agent_id |-> 2, external_order_id |-> ""],
      [client_id |-> 1, bw_quantity |-> 500, color_quantity |-> 1800, agent_id |-> None, external_order_id |-> ""] }

\* the import_id argument, None by default (order_service.py line 18)
ImportOf(r) == IF "import_id" \in DOMAIN r THEN r.import_id ELSE None

Return(c, ok, error) == [c EXCEPT !.pc = "done", !.ok = ok, !.error = error]

\* a validation that does not look at is_active
ValidateRequestAnyState(r) ==
    IF ~UserExists(r.client_id) \/ ~is_client(r.client_id) THEN "Invalid client ID"
    ELSE IF r.external_order_id # "" /\ get_by_external_id(r.external_order_id) # None
            /\ config.CSV_IDEMPOTENCY_MODE = "reject" THEN "Duplicate order"
    ELSE IF r.external_order_id # "" /\ get_by_external_id(r.external_order_id) # None
            /\ config.CSV_IDEMPOTENCY_MODE = "skip" THEN "skip"
    ELSE IF r.agent_id # None /\ (~UserExists(r.agent_id) \/ ~is_agent(r.agent_id)) THEN "Invalid agent ID"
    ELSE IF r.agent_id # None /\ ~can_accept_order(r.agent_id, config.MAX_ACTIVE_ORDERS_DEFAULT)
         THEN "Agent workload limit exceeded"
    ELSE "OK"

\* lines 46-76: the client, the duplicate external id, the agent and its
\* workload.  A duplicate is refused in mode 'reject' and answered with the
\* existing order in mode 'skip'; in any other mode lines 57-61 do nothing
\* and the request goes on.
ValidateRequest(r) ==
    IF ~UserExists(r.client_id) \/ ~is_client(r.client_id) THEN "Invalid client ID"
    ELSE IF ~Users[r.client_id].is_active THEN "Client account is not active"
    ELSE IF r.external_order_id # "" /\ get_by_external_id(r.external_order_id) # None
            /\ config.CSV_IDEMPOTENCY_MODE = "reject" THEN "Duplicate order"
    ELSE IF r.external_order_id # "" /\ get_by_external_id(r.external_order_id) # None
            /\ config.CSV_IDEMPOTENCY_MODE = "skip" THEN "skip"
    ELSE IF r.agent_id # None /\ (~UserExists(r.agent_id) \/ ~is_agent(r.agent_id)) THEN "Invalid agent ID"
    ELSE IF r.agent_id # None /\ ~Users[r.agent_id].is_active THEN "Agent account is not active"
    ELSE IF r.agent_id # None /\ ~can_accept_order(r.agent_id, config.MAX_ACTIVE_ORDERS_DEFAULT)
         THEN "Agent workload limit exceeded"
    ELSE "OK"

\* QuotaService.check_quota_available on the row q: quota_service.py lines 60-91
AfterCheck(c, q) ==
    IF can_fulfill(q, topups, c.bw_quantity, c.color_quantity) = "OK"
    THEN [c EXCEPT !.pc = "save_order"]
    ELSE Return(c, "failure", "Insufficient quota")

\* lines 46-85: the validations, then the quota row is looked up
\* (ClientQuota.get_or_create, quota.py lines 138-141) and, when it is there, checked
CreateOrderBegin(p, r) ==
    /\ calls[p].pc = "idle"
    /\ IF p = 1 THEN TRUE ELSE calls[p - 1].pc # "idle"
    /\ LET c == [calls[p] EXCEPT !.client_id = r.client_id, !.bw_quantity = r.bw_quantity,
                                 !.color_quantity = r.color_quantity, !.agent_id = r.agent_id,
                                 !.external_order_id = r.external_order_id,
                                 !.import_id = ImportOf(r)]
           v == ValidateRequest(r)
           qid == FirstQuota(quotas, r.client_id, get_current_month)
       IN calls' = [calls EXCEPT ![p] =
              IF v = "skip"
              THEN [Return(c, "success", "") EXCEPT !.order_id = get_by_external_id(r.external_order_id)]
              ELSE IF v # "OK" THEN Return(c, "failure", v)
              ELSE IF qid = None THEN [c EXCEPT !.pc = "insert_quota"]
              ELSE AfterCheck(c, quotas[qid])]
    /\ UNCHANGED <<quotas, locks, topups, orders, nextOrderId, auditLog, notifications,
                   nRefunds, statusCalls, results, config, csvImports, csvCall>>

\* a table without the constraint: every insert goes through
QuotaInsertUnconstrained(qs, client_id, month) == TRUE

\* UNIQUE (client_id, month) of client_quotas (scripts/init_db_sqlite.py line
\* 87): an insert is accepted when no row has the pair
QuotaInsertAllowed(qs, client_id, month) == FirstQuota(qs, client_id, month) = None

\* ClientQuota.get_or_create found no row: it saves a new one (quota.py lines
\* 143-152), which is then checked.  When another request has inserted the
\* row in the meantime the save raises and create_order returns line 137.
CreateOrderInsertQuota(p) ==
    /\ calls[p].pc = "insert_quota"
    /\ IF QuotaInsertAllowed(quotas, calls[p].client_id, get_current_month)
       THEN /\ quotas' = Append(quotas, NewQuota(calls[p].client_id, get_current_month))
            /\ calls' = [calls EXCEPT ![p] =
                   AfterCheck(calls[p], NewQuota(calls[p].client_id, get_current_month))]
       ELSE /\ calls' = [calls EXCEPT ![p] =
                   Return(calls[p], "failure", "Failed to create order: exception")]
            /\ UNCHANGED quotas
    /\ UNCHANGED <<locks, topups, orders, nextOrderId, auditLog, notifications,
                   nRefunds, statusCalls, results, config, csvImports, csvCall>>

\* the row of a new order: lines 88-100
NewOrder(r) ==
    [client_id |-> r.client_id, agent_id |-> r.agent_id, status |-> "pending",
     bw_quantity |-> r.bw_quantity, color_quantity |-> r.color_quantity,
     external_order_id |-> r.external_order_id, import_id |-> ImportOf(r)]

\* lines 87-101: order.save()
CreateOrderSave(p) ==
    /\ calls[p].pc = "save_order"
    /\ orders' = orders @@ (nextOrderId :> NewOrder(calls[p]))
    /\ nextOrderId' = nextOrderId + 1
    /\ calls' = [calls EXCEPT ![p].pc = "deduct_lock", ![p].order_id = nextOrderId]
    /\ UNCHANGED <<quotas, locks, topups, auditLog, notifications, nRefunds, statusCalls, results, config, csvImports, csvCall>>

(***************************************************************************)
(* QuotaService.deduct_quota, quota_service.py lines 107-156, as called    *)
(* from create_order line 104.                                             *)
(***************************************************************************)
\* the same read without FOR UPDATE: it waits for nobody
DeductLockNoWait(p) ==
    /\ calls[p].pc = "deduct_lock"
    /\ LET found == FirstQuota(quotas, calls[p].client_id, get_current_month)
           qid == IF found = None THEN Len(quotas) + 1 ELSE found
           qs == IF found = None
                 THEN Append(quotas, NewQuota(calls[p].client_id, get_current_month))
                 ELSE quotas
       IN /\ quotas' = qs
          /\ locks' = locks \cup {<<qid, p>>}
          /\ calls' = [calls EXCEPT ![p].pc = "deduct_apply", ![p].qid = qid, ![p].rd = qs[qid]]
    /\ UNCHANGED <<topups, orders, nextOrderId, auditLog, notifications, nRefunds, statusCalls, results, config, csvImports, csvCall>>

\* lines 113-125: SELECT ... FOR UPDATE of the quota row (created when absent);
\* the statement waits while another transaction holds the row
DeductLock(p) ==
    /\ calls[p].pc = "deduct_lock"
    /\ LET found == FirstQuota(quotas, calls[p].client_id, get_current_month)
           qid == IF found = None THEN Len(quotas) + 1 ELSE found
           qs == IF found = None
                 THEN Append(quotas, NewQuota(calls[p].client_id, get_current_month))
                 ELSE quotas
       IN /\ ~LockedByOther(qid, p)
          /\ quotas' = qs
          /\ locks' = locks \cup {<<qid, p>>}
          /\ calls' = [calls EXCEPT ![p].pc = "deduct_apply", ![p].qid = qid, ![p].rd = qs[qid]]
    /\ UNCHANGED <<topups, orders, nextOrderId, auditLog, notifications, nRefunds, statusCalls, results, config, csvImports, csvCall>>

\* deduct_quota trusting the caller's earlier check
DeductRecheckSkipped(q, tp, bw_quantity, color_quantity) == "OK"

\* line 128: the availability check made under the lock, on the row as locked
DeductRecheck(q, tp, bw_quantity, color_quantity) ==
    can_fulfill(q, tp, bw_quantity, color_quantity)

\* the used counters assigned instead of incremented
DeductedRowAssigned(q, bw_quantity, color_quantity) ==
    [q EXCEPT !.bw_used = bw_quantity, !.color_used = color_quantity]

\* lines 134-135: the used counters after the deduction
DeductedRow(q, bw_quantity, color_quantity) ==
    [q EXCEPT !.bw_used = q.bw_used + bw_quantity,
              !.color_used = q.color_used + color_quantity]

\* a refusal that returns without ending the transaction
RollbackOmitted(ls, qid, p) == ls

\* line 130: session.rollback() ends the transaction, the row lock is released
Rollback(ls, qid, p) == ls \ {<<qid, p>>}

\* where deduct_quota goes on after its commit: lines 144-152
AfterCommit(c) ==
    IF c.alert_bw THEN [c EXCEPT !.pc = "alert_bw"]
    ELSE IF c.alert_color THEN [c EXCEPT !.pc = "alert_color"]
    ELSE [c EXCEPT !.pc = "finish", !.deduct_ok = "ok"]

\* lines 127-141: re-check under the lock; rollback, or deduct and commit.
\* Either way the row lock is released.
DeductApply(p) ==
    /\ calls[p].pc = "deduct_apply"
    /\ locks' = IF DeductRecheck(calls[p].rd, topups, calls[p].bw_quantity, calls[p].color_quantity) # "OK"
                THEN Rollback(locks, calls[p].qid, p)
                ELSE locks \ {<<calls[p].qid, p>>}
    /\ LET c == calls[p]
           row == DeductedRow(c.rd, c.bw_quantity, c.color_quantity)
       IN IF DeductRecheck(c.rd, topups, c.bw_quantity, c.color_quantity) # "OK"
          THEN /\ calls' = [calls EXCEPT ![p] =
                     [c EXCEPT !.pc = "compensate", !.deduct_ok = "fail", !.rd = NoRow,
                               !.error = "Failed to deduct quota: Insufficient quota"]]
               /\ UNCHANGED quotas
          ELSE /\ quotas' = [quotas EXCEPT ![c.qid].bw_used = row.bw_used,
                                           ![c.qid].color_used = row.color_used]
               /\ calls' = [calls EXCEPT ![p] =
                     AfterCommit([c EXCEPT !.deducted = TRUE, !.rd = NoRow,
                                           !.alert_bw = bw_exceeded(row, topups),
                                           !.alert_color = color_exceeded(row, topups)])]
    /\ UNCHANGED <<topups, orders, nextOrderId, auditLog, notifications, nRefunds, statusCalls, results, config, csvImports, csvCall>>

\* a flag set on the object and never saved
mark_alert_sent_unsaved(q, alert_type) == q

\* ClientQuota.mark_alert_sent: quota.py lines 83-89
mark_alert_sent(q, alert_type) ==
    IF alert_type = "bw" THEN [q EXCEPT !.bw_alert_sent = TRUE]
    ELSE IF alert_type = "color" THEN [q EXCEPT !.color_alert_sent = TRUE]
    ELSE q

AlertKind(alert_type) == IF alert_type = "bw" THEN "quota_alert_bw" ELSE "quota_alert_color"

AlertType(c) == IF c.pc = "alert_bw" THEN "bw" ELSE "color"

\* lines 144-150, one channel: _send_quota_alert saves a warning notification,
\* then mark_alert_sent updates the row (the UPDATE waits for a row lock held
\* by another transaction)
DeductAlert(p) ==
    /\ calls[p].pc \in {"alert_bw", "alert_color"}
    /\ ~LockedByOther(calls[p].qid, p)
    /\ notifications' = AddNotification(notifications, calls[p].client_id,
                                        AlertKind(AlertType(calls[p])), None)
    /\ quotas' = [quotas EXCEPT ![calls[p].qid] = mark_alert_sent(@, AlertType(calls[p]))]
    /\ calls' = [calls EXCEPT ![p] =
           IF calls[p].pc = "alert_bw"
           THEN AfterCommit([calls[p] EXCEPT !.alert_bw = FALSE])
           ELSE AfterCommit([calls[p] EXCEPT !.alert_bw = FALSE, !.alert_color = FALSE])]
    /\ UNCHANGED <<locks, topups, orders, nextOrderId, auditLog, nRefunds, statusCalls, results, config, csvImports, csvCall>>

(***************************************************************************)
(* create_order after deduct_quota has returned: lines 108-135.            *)
(***************************************************************************)
\* the failure is returned, the order is left behind
CreateOrderNoCompensate(p) ==
    /\ calls[p].pc = "compensate"
    /\ calls' = [calls EXCEPT ![p] = Return(calls[p], "failure", calls[p].error)]
    /\ UNCHANGED <<quotas, locks, topups, orders, nextOrderId, auditLog, notifications,
                   nRefunds, statusCalls, results, config, csvImports, csvCall>>

\* a compensation that deletes by client instead of by order id
CreateOrderCompensateClient(p) ==
    /\ calls[p].pc = "compensate"
    /\ orders' = [o \in {x \in DOMAIN orders : orders[x].client_id # calls[p].client_id} |-> orders[o]]
    /\ calls' = [calls EXCEPT ![p] = Return(calls[p], "failure", calls[p].error)]
    /\ UNCHANGED <<quotas, locks, topups, nextOrderId, auditLog, notifications,
                   nRefunds, statusCalls, results, config, csvImports, csvCall>>

\* lines 108-111: the deduction failed, the order is deleted
CreateOrderCompensate(p) ==
    /\ calls[p].pc = "compensate"
    /\ orders' = [o \in DOMAIN orders \ {calls[p].order_id} |-> orders[o]]
    /\ calls' = [calls EXCEPT ![p] = Return(calls[p], "failure", calls[p].error)]
    /\ UNCHANGED <<quotas, locks, topups, nextOrderId, auditLog, notifications,
                   nRefunds, statusCalls, results, config, csvImports, csvCall>>

\* lines 114-125: the ORDER_CREATED entry
OrderCreatedEntry(r, order_id) ==
    [action |-> "ORDER_CREATED", user_id |-> r.client_id,
     details |-> [order_id |-> order_id, client_id |-> r.client_id, agent_id |-> r.agent_id,
                  bw_quantity |-> r.bw_quantity, color_quantity |-> r.color_quantity]]

\* NotificationService.create_order_notification: nothing when the order is gone
OrderNotification(n, os, order_id, user_id, kind) ==
    IF order_id \in DOMAIN os THEN AddNotification(n, user_id, kind, order_id) ELSE n

\* lines 127-133: the notifications of a created order, the first k of them
OrderCreatedNotifications(n, os, r, order_id, k) ==
    LET n1 == IF k >= 1 THEN OrderNotification(n, os, order_id, r.client_id, "created") ELSE n
    IN IF k >= 2 /\ r.agent_id # None
       THEN OrderNotification(n1, os, order_id, r.agent_id, "assigned")
       ELSE n1

\* lines 113-135: the audit entry, the notifications, the return
CreateOrderFinish(p) ==
    /\ calls[p].pc = "finish"
    /\ auditLog' = Append(auditLog, OrderCreatedEntry(calls[p], calls[p].order_id))
    /\ notifications' = OrderCreatedNotifications(notifications, orders, calls[p], calls[p].order_id, 2)
    /\ calls' = [calls EXCEPT ![p] = Return(calls[p], "success", "")]
    /\ UNCHANGED <<quotas, locks, topups, orders, nextOrderId, nRefunds, statusCalls, results, config, csvImports, csvCall>>

(***************************************************************************)
(* Faults.  A write of the audit log or of a notification, and the ledger  *)
(* transaction, may raise (a storage error).                               *)
(***************************************************************************)
\* lines 154-156: an exception inside the transaction of deduct_quota:
\* rollback (the row lock is released), (False, 'Failed to deduct quota: ...')
DeductRaise(p) ==
    /\ calls[p].pc = "deduct_apply"
    /\ locks' = locks \ {<<calls[p].qid, p>>}
    /\ calls' = [calls EXCEPT ![p].pc = "compensate", ![p].deduct_ok = "fail", ![p].rd = NoRow,
                              ![p].error = "Failed to deduct quota: Failed to deduct quota: exception"]
    /\ UNCHANGED <<quotas, topups, orders, nextOrderId, auditLog, notifications,
                   nRefunds, statusCalls, results, config, csvImports, csvCall>>

\* what deduct_quota returns when an exception reaches its except clause
\* (lines 154-156), here after the commit of line 141
AlertRaised(c) ==
    [c EXCEPT !.pc = "compensate", !.deduct_ok = "fail", !.alert_bw = FALSE, !.alert_color = FALSE,
              !.error = "Failed to deduct quota: Failed to deduct quota: exception"]

\* lines 144-156: _send_quota_alert raises (sent = FALSE), or it saves the
\* notification and mark_alert_sent raises (sent = TRUE)
DeductAlertRaise(p, sent) ==
    /\ calls[p].pc \in {"alert_bw", "alert_color"}
    /\ notifications' = IF sent
                        THEN AddNotification(notifications, calls[p].client_id,
                                             AlertKind(AlertType(calls[p])), None)
                        ELSE notifications
    /\ calls' = [calls EXCEPT ![p] = AlertRaised(calls[p])]
    /\ UNCHANGED <<quotas, locks, topups, orders, nextOrderId, auditLog, nRefunds, statusCalls, results, config, csvImports, csvCall>>

\* lines 113-138: AuditLog.log_action raises (k = 0), or the notification to
\* the client does (k = 1), or the one to the agent (k = 2): the except clause
\* returns (False, None, 'Failed to create order: ...')
CreateOrderRaise(p, k) ==
    /\ calls[p].pc = "finish"
    /\ k = 2 => calls[p].agent_id # None
    /\ auditLog' = IF k >= 1 THEN Append(auditLog, OrderCreatedEntry(calls[p], calls[p].order_id))
                   ELSE auditLog
    /\ notifications' = OrderCreatedNotifications(notifications, orders, calls[p], calls[p].order_id, k - 1)
    /\ calls' = [calls EXCEPT ![p] = Return(calls[p], "failure", "Failed to create order: exception")]
    /\ UNCHANGED <<quotas, locks, topups, orders, nextOrderId, nRefunds, statusCalls, results, config, csvImports, csvCall>>

(***************************************************************************)
(* QuotaService.create_topup, quota_service.py lines 215-265.              *)
(***************************************************************************)
TopupInputs == { <<1000, 1000>>, <<500, 0>>, <<0, 0>> }

\* a validation that looks at one channel only
TopupRejectedBwOnly(bw_added, color_added) ==
    \/ bw_added > 0 /\ bw_added < MIN_TOPUP_AMOUNT
    \/ bw_added = 0 /\ color_added = 0

\* lines 231-240
TopupRejected(bw_added, color_added) ==
    \/ bw_added > 0 /\ bw_added < MIN_TOPUP_AMOUNT
    \/ color_added > 0 /\ color_added < MIN_TOPUP_AMOUNT
    \/ bw_added = 0 /\ color_added = 0

\* the messages of lines 233-240
TopupError(bw_added, color_added) ==
    IF bw_added > 0 /\ bw_added < MIN_TOPUP_AMOUNT THEN "B&W top-up must be at least min_topup prints"
    ELSE IF color_added > 0 /\ color_added < MIN_TOPUP_AMOUNT THEN "Color top-up must be at least min_topup prints"
    ELSE "Top-up must add at least one type of quota"

\* QuotaTopup.create_topup raises: its own test (quota.py lines 224-225) or
\* the CHECK constraints of the table (quota.py lines 184-188) on the insert
TopupRaises(bw_added, color_added) ==
    \/ bw_added <= 0 /\ color_added <= 0
    \/ bw_added < 0
    \/ color_added < 0

\* the inputs create_topup accepts
AcceptedTopups(inputs) ==
    {t \in inputs : ~TopupRejected(t[1], t[2]) /\ ~TopupRaises(t[1], t[2])}

CreateTopup(client_id, admin_id, bw_added, color_added) ==
    /\ IF TopupRejected(bw_added, color_added)
       THEN /\ results' = [results EXCEPT !["topup"] =
                    Result("failure", TopupError(bw_added, color_added), << >>, << >>)]
            /\ UNCHANGED <<topups, auditLog, notifications>>
       ELSE IF TopupRaises(bw_added, color_added)
       THEN /\ results' = [results EXCEPT !["topup"] = Result("failure", "exception", << >>, << >>)]
            /\ UNCHANGED <<topups, auditLog, notifications>>
       ELSE /\ Len(topups) < MaxTopups
            /\ topups' = Append(topups, [client_id |-> client_id, admin_id |-> admin_id,
                                         bw_added |-> bw_added, color_added |-> color_added,
                                         transaction_date |-> Today])
            /\ auditLog' = Append(auditLog,
                   [action |-> "QUOTA_TOPUP", user_id |-> admin_id,
                    details |-> [client_id |-> client_id, bw_added |-> bw_added,
                                 color_added |-> color_added, topup_id |-> Len(topups) + 1]])
            /\ notifications' = AddNotification(notifications, client_id, "topup", None)
            /\ results' = [results EXCEPT !["topup"] =
                    Result("success", "", << >>, <<Len(topups) + 1>>)]
    /\ UNCHANGED <<quotas, locks, orders, nextOrderId, calls, nRefunds, statusCalls, config, csvImports, csvCall>>

(***************************************************************************)
(* QuotaService.refund_quota, quota_service.py lines 158-213.              *)
(***************************************************************************)
RefundInputs == { <<1000, 0>>, <<0, 3000>> }

\* a refund with the sign of a deduction
RefundedRowAdded(q, bw_quantity, color_quantity) ==
    [q EXCEPT !.bw_used = q.bw_used + bw_quantity,
              !.color_used = q.color_used + color_quantity]

\* a refund that is not floored at zero
RefundedRowUnclamped(q, bw_quantity, color_quantity) ==
    [q EXCEPT !.bw_used = q.bw_used - bw_quantity,
              !.color_used = q.color_used - color_quantity]

\* lines 191-192
RefundedRow(q, bw_quantity, color_quantity) ==
    [q EXCEPT !.bw_used = Max(0, q.bw_used - bw_quantity),
              !.color_used = Max(0, q.color_used - color_quantity)]

RefundQuota(client_id, bw_quantity, color_quantity) ==
    /\ nRefunds < MaxRefunds
    /\ nRefunds' = nRefunds + 1
    /\ LET qid == FirstQuota(quotas, client_id, get_current_month)
       IN IF qid = None
          THEN UNCHANGED <<quotas, auditLog>>   \* lines 186-188: nothing to refund
          ELSE /\ \A l \in locks : l[1] # qid
               /\ quotas' = [quotas EXCEPT ![qid] = RefundedRow(quotas[qid], bw_quantity, color_quantity)]
               /\ auditLog' = Append(auditLog,
                      [action |-> "QUOTA_REFUND", user_id |-> client_id,
                       details |-> [client_id |-> client_id, bw_refunded |-> bw_quantity,
                                    color_refunded |-> color_quantity]])
    /\ results' = [results EXCEPT !["refund"] = Result("success", "", << >>, << >>)]
    /\ UNCHANGED <<locks, topups, orders, nextOrderId, notifications, calls, statusCalls, config, csvImports, csvCall>>

(***************************************************************************)
(* QuotaService.check_quota_available, quota_service.py lines 42-91, as a  *)
(* call of its own.                                                        *)
(***************************************************************************)
\* month = None
NoDate == [year |-> 0, month |-> 0, day |-> 0]

\* QuotaService.get_or_create_quota lines 31-34: the month a call works on
MonthOf(month) == IF month = NoDate THEN get_current_month ELSE normalize_month(month)

\* lines 60-91: what the call returns for the row q
CheckResult(q, tp, bw_quantity, color_quantity) ==
    IF can_fulfill(q, tp, bw_quantity, color_quantity) = "OK"
    THEN Result("success", "", << >>,
                <<get_available_bw(q, tp), get_available_color(q, tp), q.bw_used, q.color_used>>)
    ELSE IF bw_quantity > get_available_bw(q, tp)
    THEN Result("failure", "Insufficient B&W quota",
                <<get_available_bw(q, tp), get_total_bw(q, tp), bw_quantity>>, << >>)
    ELSE Result("failure", "Insufficient Color quota",
                <<get_available_color(q, tp), get_total_color(q, tp), color_quantity>>, << >>)

\* the row is looked up and, when absent, inserted (ClientQuota.get_or_create,
\* quota.py lines 130-154); then it is checked
CheckQuotaAvailable(client_id, bw_quantity, color_quantity, month) ==
    /\ LET qid == FirstQuota(quotas, client_id, MonthOf(month))
           q == IF qid = None THEN NewQuota(client_id, MonthOf(month)) ELSE quotas[qid]
       IN /\ quotas' = IF qid = None THEN Append(quotas, q) ELSE quotas
          /\ results' = [results EXCEPT !["check"] =
                 CheckResult(q, topups, bw_quantity, color_quantity)]
    /\ UNCHANGED <<locks, topups, orders, nextOrderId, auditLog, notifications,
                   calls, nRefunds, statusCalls, config, csvImports, csvCall>>

(***************************************************************************)
(* PATCH /api/orders/:id/assign, api/orders.py lines 121-235.              *)
(***************************************************************************)
AssignActions == {"ORDER_ASSIGNED", "ORDER_REASSIGNED", "ORDER_UNASSIGNED"}

\* the assignments and unassignments made so far
AssignCount == Cardinality({i \in 1..Len(auditLog) : auditLog[i].action \in AssignActions})

\* agent_id = '' in the body of the request
EmptyString == -1

\* a workload check that is made on every change of agent
AssignRefusedStrict(o, agent_id) ==
    IF ~UserExists(agent_id) THEN "Invalid agent ID"
    ELSE IF ~is_agent(agent_id) THEN "Invalid agent ID"
    ELSE IF ~Users[agent_id].is_active THEN "Agent account is not active"
    ELSE IF o.agent_id # agent_id
            /\ ~can_accept_order(agent_id, config.MAX_ACTIVE_ORDERS_DEFAULT)
    THEN "Agent workload limit exceeded"
    ELSE "OK"

\* lines 176-192: why an assignment to agent_id is refused
AssignRefused(o, agent_id) ==
    IF ~UserExists(agent_id) THEN "Invalid agent ID"
    ELSE IF ~is_agent(agent_id) THEN "Invalid agent ID"
    ELSE IF ~Users[agent_id].is_active THEN "Agent account is not active"
    ELSE IF o.agent_id # agent_id /\ o.agent_id = None
            /\ ~can_accept_order(agent_id, config.MAX_ACTIVE_ORDERS_DEFAULT)
    THEN "Agent workload limit exceeded"
    ELSE "OK"

\* an unassignment that tells nobody
UnassignNotificationsNone(n, old_agent_id, order_id) == n

\* lines 159-165: the previous agent, when there was one, is told
UnassignNotifications(n, old_agent_id, order_id) ==
    IF old_agent_id # None
    THEN AddNotification(n, old_agent_id, "unassigned", order_id)
    ELSE n

\* the whole request.  Unassignment (lines 142-167) saves, logs and tells the
\* previous agent.  Assignment (lines 195-217) saves and logs; its call of
\* create_notification passes send_email, which create_notification
\* (notification_service.py lines 20-21) does not take: the call raises and
\* line 233 answers with a server error.
AssignOrder(order_id, agent_id, admin_id) ==
    /\ IF order_id \notin DOMAIN orders
       THEN /\ results' = [results EXCEPT !["assign"] = Result("failure", "Order not found", << >>, << >>)]
            /\ UNCHANGED <<orders, auditLog, notifications>>
       ELSE IF agent_id \in {None, EmptyString}
       THEN /\ AssignCount < MaxAssigns
            /\ orders' = [orders EXCEPT ![order_id].agent_id = None]
            /\ auditLog' = Append(auditLog,
                   [action |-> "ORDER_UNASSIGNED", user_id |-> admin_id,
                    details |-> [order_id |-> order_id, previous_agent_id |-> orders[order_id].agent_id]])
            /\ notifications' = UnassignNotifications(notifications, orders[order_id].agent_id, order_id)
            /\ results' = [results EXCEPT !["assign"] = Result("success", "", << >>, << >>)]
       ELSE IF AssignRefused(orders[order_id], agent_id) # "OK"
       THEN /\ results' = [results EXCEPT !["assign"] =
                   Result("failure", AssignRefused(orders[order_id], agent_id), << >>, << >>)]
            /\ UNCHANGED <<orders, auditLog, notifications>>
       ELSE /\ AssignCount < MaxAssigns
            /\ orders' = [orders EXCEPT ![order_id].agent_id = agent_id]
            /\ auditLog' = Append(auditLog,
                   [action |-> IF orders[order_id].agent_id = None
                               THEN "ORDER_ASSIGNED" ELSE "ORDER_REASSIGNED",
                    user_id |-> admin_id,
                    details |-> [order_id |-> order_id, agent_id |-> agent_id,
                                 previous_agent_id |-> orders[order_id].agent_id]])
            /\ UNCHANGED notifications
            /\ results' = [results EXCEPT !["assign"] =
                   Result("failure", "Failed to assign order: exception", << >>, << >>)]
    /\ UNCHANGED <<quotas, locks, topups, nextOrderId, calls, nRefunds, statusCalls, config, csvImports, csvCall>>

(***************************************************************************)
(* OrderService.change_order_status, order_service.py lines 140-182, with  *)
(* Order.change_status, order.py lines 99-130.                             *)
(***************************************************************************)
Statuses == {"pending", "validated", "processing", "completed"}

\* a table that lets a pending order skip validation
allowed_transitions_skip(current) ==
    CASE current = "pending" -> {"validated", "processing"}
      [] current = "validated" -> {"processing"}
      [] current = "processing" -> {"completed"}
      [] current = "completed" -> {}
      [] OTHER -> {}

\* order.py lines 103-108
allowed_transitions(current) ==
    CASE current = "pending" -> {"validated"}
      [] current = "validated" -> {"processing"}
      [] current = "processing" -> {"completed"}
      [] current = "completed" -> {}
      [] OTHER -> {}

\* the notification of the client alone
StatusChangeNotificationsClientOnly(n, o, order_id) ==
    AddNotification(n, o.client_id, "status_change", order_id)

\* NotificationService.create_status_change_notification: lines 87-102
StatusChangeNotifications(n, o, order_id) ==
    LET n1 == AddNotification(n, o.client_id, "status_change", order_id)
    IN IF o.agent_id # None
       THEN AddNotification(n1, o.agent_id, "status_change", order_id)
       ELSE n1

\* the ORDER_STATUS_CHANGE entry: order.py lines 119-127
StatusChangeEntry(order_id, old_status, new_status, changed_by_id) ==
    [action |-> "ORDER_STATUS_CHANGE", user_id |-> changed_by_id,
     details |-> [order_id |-> order_id, old_status |-> old_status, new_status |-> new_status]]

\* the request has returned: its locals are gone, its result stays
StatusReturn(c, ok, error) == [IdleStatusCall EXCEPT !.pc = "done", !.ok = ok, !.error = error]

\* a message table that has drifted from the one Order.change_status uses
transition_message_table_stale(old_status) ==
    CASE old_status = "pending" -> <<"validated", "processing">>
      [] old_status = "validated" -> <<"processing">>
      [] old_status = "processing" -> <<"completed">>
      [] old_status = "completed" -> << >>
      [] OTHER -> << >>

\* the table the error message is built from: order_service.py lines 165-171
transition_message_table(old_status) ==
    CASE old_status = "pending" -> <<"validated">>
      [] old_status = "validated" -> <<"processing">>
      [] old_status = "processing" -> <<"completed">>
      [] old_status = "completed" -> << >>
      [] OTHER -> << >>

\* order_service.py lines 164-172: the refusal, whose message carries the
\* status the order was loaded with, the requested one and the allowed ones
\* ('none' when there is none)
InvalidTransition(c, old_status, new_status) ==
    LET allowed == transition_message_table(old_status)
    IN [StatusReturn(c, "failure", "Invalid status transition")
           EXCEPT !.msg_from = old_status, !.msg_to = new_status,
                  !.msg_allowed = IF allowed # << >> THEN allowed ELSE <<"none">>]

StatusInputs == Statuses \cup {"cancelled"}

\* OrderService.change_order_status, order_service.py lines 153-173, with
\* Order.change_status lines 101-111: the order is loaded and the transition
\* is validated against the status it was loaded with
ChangeStatusLoad(s, order_id, new_status) ==
    /\ statusCalls[s].pc = "idle"
    /\ IF s = 1 THEN TRUE ELSE statusCalls[s - 1].pc # "idle"
    /\ LET c == [statusCalls[s] EXCEPT !.order_id = order_id, !.new_status = new_status]
       IN statusCalls' = [statusCalls EXCEPT ![s] =
              IF order_id \notin DOMAIN orders
              THEN StatusReturn(c, "failure", "Order not found")
              ELSE IF new_status \notin allowed_transitions(orders[order_id].status)
              THEN InvalidTransition(c, orders[order_id].status, new_status)
              ELSE [c EXCEPT !.pc = "loaded", !.old_status = orders[order_id].status]]
    /\ UNCHANGED <<quotas, locks, topups, orders, nextOrderId, auditLog, notifications,
                   calls, nRefunds, results, config, csvImports, csvCall>>

\* Order.change_status lines 113-130, then the notifications and the return
\* (order_service.py lines 175-179): the new status is saved, the audit entry
\* appended.  The UPDATE of a row that was deleted in the meantime raises;
\* line 181 returns it.
ChangeStatusSave(s, changed_by_id) ==
    /\ statusCalls[s].pc = "loaded"
    /\ LET c == statusCalls[s]
       IN IF c.order_id \notin DOMAIN orders
          THEN /\ statusCalls' = [statusCalls EXCEPT ![s] = StatusReturn(c, "failure", "exception")]
               /\ UNCHANGED <<orders, auditLog, notifications>>
          ELSE /\ orders' = [orders EXCEPT ![c.order_id].status = c.new_status]
               /\ auditLog' = Append(auditLog,
                      StatusChangeEntry(c.order_id, c.old_status, c.new_status, changed_by_id))
               /\ notifications' = StatusChangeNotifications(notifications, orders[c.order_id], c.order_id)
               /\ statusCalls' = [statusCalls EXCEPT ![s] = StatusReturn(c, "success", "")]
    /\ UNCHANGED <<quotas, locks, topups, nextOrderId, calls, nRefunds, results, config, csvImports, csvCall>>

(***************************************************************************)
(* Specifications.                                                         *)
(***************************************************************************)
CreateOrderStep(p, R) ==
    \/ \E r \in R : CreateOrderBegin(p, r)
    \/ CreateOrderInsertQuota(p)
    \/ CreateOrderSave(p)
    \/ DeductLock(p)
    \/ DeductApply(p)
    \/ DeductAlert(p)
    \/ CreateOrderCompensate(p)
    \/ CreateOrderFinish(p)

Fault(p) ==
    \/ DeductRaise(p)
    \/ \E sent \in BOOLEAN : DeductAlertRaise(p, sent)
    \/ \E k \in 0..2 : CreateOrderRaise(p, k)

\* the top-ups that are granted
Topup == \E t \in AcceptedTopups(TopupInputs) : CreateTopup(1, 3, t[1], t[2])

Refund == \E t \in RefundInputs : RefundQuota(1, t[1], t[2])

\* concurrent create_order requests and top-ups; no write raises
Next ==
    \/ \E p \in Procs : CreateOrderStep(p, Requests)
    \/ Topup

Spec == Init /\ [][Next]_vars

\* the dates a call can name a month by
Dates == {NoDate, [year |-> 2025, month |-> 11, day |-> 28], [year |-> 2025, month |-> 12, day |-> 1]}

\* Scenario B: the quota row of the month is there, nothing is used
InitB ==
    /\ quotas = <<NewQuota(1, get_current_month)>>
    /\ locks = {}
    /\ topups = << >>
    /\ orders = << >>
    /\ nextOrderId = 1
    /\ auditLog = << >>
    /\ notifications = EmptyBag
    /\ calls = [p \in Procs |-> IdleCall]
    /\ nRefunds = 0
    /\ statusCalls = [s \in StatusProcs |-> IdleStatusCall]
    /\ results = NoResults
    /\ csvImports = << >>
    /\ csvCall = IdleCsvCall
    /\ config = DefaultConfig

NextB ==
    \/ \E p \in Procs : \E r \in Requests : CreateOrderBegin(p, r)
    \/ \E p \in Procs : CreateOrderSave(p)
    \/ \E p \in Procs : DeductLock(p)
    \/ \E p \in Procs : DeductApply(p)
    \/ \E p \in Procs : DeductAlert(p)
    \/ \E p \in Procs : CreateOrderCompensate(p)
    \/ \E p \in Procs : CreateOrderFinish(p)
    \/ Topup

SpecB == InitB /\ [][NextB]_vars

\* the row of the month as a deployment has created it: with the default
\* limits, or with no color allowance (DEFAULT_COLOR_LIMIT = 0)
InitAlert ==
    /\ \E color_limit \in {0, DEFAULT_COLOR_LIMIT} :
           quotas = <<[NewQuota(1, get_current_month) EXCEPT !.color_limit = color_limit]>>
    /\ locks = {}
    /\ topups = << >>
    /\ orders = << >>
    /\ nextOrderId = 1
    /\ auditLog = << >>
    /\ notifications = EmptyBag
    /\ calls = [p \in Procs |-> IdleCall]
    /\ nRefunds = 0
    /\ statusCalls = [s \in StatusProcs |-> IdleStatusCall]
    /\ results = NoResults
    /\ csvImports = << >>
    /\ csvCall = IdleCsvCall
    /\ config = DefaultConfig

SpecAlert == InitAlert /\ [][NextB]_vars

\* concurrent create_order requests and checks that name the month by a date
CheckDated == \E d \in Dates : CheckQuotaAvailable(1, 900, 0, d)

NextRows ==
    \/ \E p \in Procs : CreateOrderStep(p, Requests)
    \/ CheckDated

SpecRows == Init /\ [][NextRows]_vars

\* concurrent create_order requests whose writes may raise
NextFault ==
    \/ \E p \in Procs : CreateOrderStep(p, Requests)
    \/ \E p \in Procs : Fault(p)

SpecFault == Init /\ [][NextFault]_vars

\* the same requests, each served by a worker that keeps running: a request
\* that can take a step eventually takes one
SpecFair ==
    /\ Init
    /\ [][NextFault]_vars
    /\ \A p \in Procs : WF_vars(CreateOrderStep(p, Requests))

\* every ledger operation
NextLedger ==
    \/ Next
    \/ Refund

SpecLedger == Init /\ [][NextLedger]_vars

\* a create_order request served while no other one is in progress
CreateOrderAlone(p, R) ==
    /\ \A q \in Procs \ {p} : calls[q].pc \in {"idle", "done"}
    /\ \/ \E r \in R : CreateOrderBegin(p, r)
       \/ CreateOrderInsertQuota(p)
       \/ CreateOrderSave(p)
       \/ DeductLock(p)
       \/ DeductApply(p)
       \/ DeductAlert(p)
       \/ CreateOrderFinish(p)

\* create_order requests one after the other, change_order_status requests
\* on the orders there are, concurrent with them and with each other (requests
\* on a missing order or for an unknown status are in NextStatus)
NextLifecycle ==
    \/ \E p \in Procs : CreateOrderAlone(p, Requests)
    \/ \E s \in StatusProcs : \E o \in DOMAIN orders, st \in Statuses :
           ChangeStatusLoad(s, o, st)
    \/ \E s \in StatusProcs : ChangeStatusSave(s, 3)

SpecLifecycle == Init /\ [][NextLifecycle]_vars

\* change_order_status requests on the orders of a running system: one order
\* of a client, in any status, with or without an agent
InitStatus ==
    /\ \E st \in Statuses, a \in {None, 2} :
           orders = 1 :> [NewOrder([client_id |-> 1, agent_id |-> a, bw_quantity |-> 500,
                                    color_quantity |-> 0, external_order_id |-> ""])
                             EXCEPT !.status = st]
    /\ nextOrderId = 2
    /\ quotas = <<[NewQuota(1, get_current_month) EXCEPT !.bw_used = 500]>>
    /\ locks = {}
    /\ topups = << >>
    /\ auditLog = << >>
    /\ notifications = EmptyBag
    /\ calls = [p \in Procs |-> IdleCall]
    /\ nRefunds = 0
    /\ statusCalls = [s \in StatusProcs |-> IdleStatusCall]
    /\ results = NoResults
    /\ csvImports = << >>
    /\ csvCall = IdleCsvCall
    /\ config = DefaultConfig

NextStatus ==
    \/ \E s \in StatusProcs : \E o \in DOMAIN orders \cup {nextOrderId}, st \in StatusInputs :
           ChangeStatusLoad(s, o, st)
    \/ \E s \in StatusProcs : ChangeStatusSave(s, 3)

SpecStatus == InitStatus /\ [][NextStatus]_vars

CheckInputs == { <<900, 0>>, <<3100, 0>>, <<0, 1500>>, <<1100, 200>>, <<0, 0>> }

Check == \E t \in CheckInputs, d \in Dates : CheckQuotaAvailable(1, t[1], t[2], d)

CheckNow == \E t \in {<<900, 0>>, <<3100, 0>>} : CheckQuotaAvailable(1, t[1], t[2], NoDate)

\* the agent_id of a request: null, '', the agents, a user of another role,
\* an inactive agent, a missing user
AssignInputs == {None, EmptyString, 2, 6, 3, 5, NoSuchUser}

Assign == \E o \in DOMAIN orders \cup {nextOrderId}, a \in AssignInputs : AssignOrder(o, a, 3)

AssignExisting == \E o \in DOMAIN orders, a \in {None, 2} : AssignOrder(o, a, 3)

\* every operation that could touch a quota row: create_order requests one
\* after the other, one change_order_status request, assignments, top-ups,
\* refunds and checks
\* the top-up requests made of the service, granted or not
TopupCalls == TopupInputs \cup { <<0, 2000>>, <<1000, 500>>, <<-500, 1000>>, <<-500, 0>> }

TopupAny == \E t \in TopupCalls : CreateTopup(1, 3, t[1], t[2])

\* the ledger of a client in the course of a month: no row yet or a row
\* with some quota used, with or without a top-up
InitQuota ==
    /\ \E used \in { <<0, 0>>, <<2900, 0>>, <<500, 1800>>, <<3000, 2000>> }, tp \in {0, 1000, 2000} :
         /\ quotas \in { << >>,
                         <<[NewQuota(1, get_current_month) EXCEPT !.bw_used = used[1],
                                                                   !.color_used = used[2]]>> }
         /\ quotas = << >> => used = <<0, 0>>
         /\ topups = IF tp = 0 THEN << >>
                     ELSE <<[client_id |-> 1, admin_id |-> 3, bw_added |-> tp, color_added |-> 0,
                             transaction_date |-> Today]>>
    /\ locks = {}
    /\ orders = << >>
    /\ nextOrderId = 1
    /\ auditLog = << >>
    /\ notifications = EmptyBag
    /\ calls = [p \in Procs |-> IdleCall]
    /\ nRefunds = 0
    /\ statusCalls = [s \in StatusProcs |-> IdleStatusCall]
    /\ results = NoResults
    /\ csvImports = << >>
    /\ csvCall = IdleCsvCall
    /\ config = DefaultConfig

\* checks alone, on every ledger
NextCheck == Check

SpecCheck == InitQuota /\ [][NextCheck]_vars

\* the writes of the quota service that are not part of create_order
NextQuota ==
    \/ TopupAny
    \/ Refund

SpecQuota == InitQuota /\ [][NextQuota]_vars

LogOpen == Len(auditLog) < MaxLog

NextFrame ==
    \/ LogOpen /\ \E p \in Procs : CreateOrderAlone(p, Requests)
    \/ LogOpen /\ \E o \in DOMAIN orders, st \in {"validated", "completed"} : ChangeStatusLoad(1, o, st)
    \/ LogOpen /\ ChangeStatusSave(1, 3)
    \/ LogOpen /\ AssignExisting
    \/ LogOpen /\ Topup
    \/ LogOpen /\ Refund
    \/ LogOpen /\ CheckNow

SpecFrame == Init /\ [][NextFrame]_vars

\* a request is served while no other one is in progress
Alone(p) == \A q \in Procs \ {p} : calls[q].pc \in {"idle", "done"}

\* the orders of a running system: order 1 of client 1, pending, held by
\* agent 2, imported with the external id "A"; order 2, completed by agent 2
RunningOrders ==
    (1 :> NewOrder([client_id |-> 1, agent_id |-> 2, bw_quantity |-> 500,
                    color_quantity |-> 0, external_order_id |-> "A"])) @@
    (2 :> [NewOrder([client_id |-> 1, agent_id |-> 2, bw_quantity |-> 100,
                     color_quantity |-> 0, external_order_id |-> ""])
              EXCEPT !.status = "completed"])

\* the settings a deployment can make: os.getenv in config.py lines 39 and 44
IdempotencyModes == {"reject", "skip", "upsert"}

WorkloadLimits == {1, 2}

\* the running system under each of the settings
InitAdmission ==
    /\ \E mode \in IdempotencyModes, limit \in WorkloadLimits :
           config = [CSV_IDEMPOTENCY_MODE |-> mode, MAX_ACTIVE_ORDERS_DEFAULT |-> limit]
    /\ orders = RunningOrders
    /\ nextOrderId = 3
    /\ quotas = <<[NewQuota(1, get_current_month) EXCEPT !.bw_used = 600]>>
    /\ locks = {}
    /\ topups = << >>
    /\ auditLog = << >>
    /\ notifications = EmptyBag
    /\ calls = [p \in Procs |-> IdleCall]
    /\ nRefunds = 0
    /\ statusCalls = [s \in StatusProcs |-> IdleStatusCall]
    /\ results = NoResults
    /\ csvImports = << >>
    /\ csvCall = IdleCsvCall

\* the requests made of it: a duplicate of order 1, two new orders for agent
\* 2 (one imported, one not), and requests naming a client or an agent that is missing, has another
\* role or is inactive
AdmissionRequests ==
    { [client_id |-> 1, bw_quantity |-> 300, color_quantity |-> 0, agent_id |-> None, external_order_id |-> "A"],
      [client_id |-> 1, bw_quantity |-> 1900, color_quantity |-> 0, agent_id |-> 2, external_order_id |-> "B"],
      [client_id |-> 1, bw_quantity |-> 100, color_quantity |-> 0, agent_id |-> 2, external_order_id |-> ""],
      [client_id |-> NoSuchUser, bw_quantity |-> 100, color_quantity |-> 0, agent_id |-> None, external_order_id |-> ""],
      [client_id |-> 2, bw_quantity |-> 100, color_quantity |-> 0, agent_id |-> None, external_order_id |-> ""],
      [client_id |-> 4, bw_quantity |-> 100, color_quantity |-> 0, agent_id |-> None, external_order_id |-> ""],
      [client_id |-> 1, bw_quantity |-> 100, color_quantity |-> 0, agent_id |-> NoSuchUser, external_order_id |-> ""],
      [client_id |-> 1, bw_quantity |-> 100, color_quantity |-> 0, agent_id |-> 3, external_order_id |-> ""],
      [client_id |-> 1, bw_quantity |-> 100, color_quantity |-> 0, agent_id |-> 5, external_order_id |-> ""] }

\* create_order requests served one after the other
NextAdmission ==
    \/ \E p \in Procs : Alone(p) /\ \E r \in AdmissionRequests : CreateOrderBegin(p, r)
    \/ \E p \in Procs : Alone(p) /\ CreateOrderSave(p)
    \/ \E p \in Procs : Alone(p) /\ DeductLock(p)
    \/ \E p \in Procs : Alone(p) /\ DeductApply(p)
    \/ \E p \in Procs : Alone(p) /\ DeductAlert(p)
    \/ \E p \in Procs : Alone(p) /\ CreateOrderFinish(p)

SpecAdmission == InitAdmission /\ [][NextAdmission]_vars

\* the running system with a workload limit of 2: agent 2 holds one active
\* order and can take one more
InitRace ==
    /\ config = [CSV_IDEMPOTENCY_MODE |-> CSV_IDEMPOTENCY_MODE, MAX_ACTIVE_ORDERS_DEFAULT |-> 2]
    /\ orders = RunningOrders
    /\ nextOrderId = 3
    /\ quotas = <<[NewQuota(1, get_current_month) EXCEPT !.bw_used = 600]>>
    /\ locks = {}
    /\ topups = << >>
    /\ auditLog = << >>
    /\ notifications = EmptyBag
    /\ calls = [p \in Procs |-> IdleCall]
    /\ nRefunds = 0
    /\ statusCalls = [s \in StatusProcs |-> IdleStatusCall]
    /\ results = NoResults
    /\ csvImports = << >>
    /\ csvCall = IdleCsvCall

\* an imported order without an agent, and an order for agent 2
RaceRequests ==
    { [client_id |-> 1, bw_quantity |-> 100, color_quantity |-> 0, agent_id |-> None, external_order_id |-> "B"],
      [client_id |-> 1, bw_quantity |-> 100, color_quantity |-> 0, agent_id |-> 2, external_order_id |-> ""] }

\* assign_order of agent 2 to an order that has no agent
AssignFree == \E o \in DOMAIN orders : orders[o].agent_id = None /\ AssignOrder(o, 2, 3)

\* concurrent create_order requests and assignments.  The quantities fit the
\* quota and stay below the warning threshold: no request is refused by the
\* ledger and no alert is due.
NextRace ==
    \/ \E p \in Procs : \E r \in RaceRequests : CreateOrderBegin(p, r)
    \/ \E p \in Procs : CreateOrderSave(p)
    \/ \E p \in Procs : DeductLock(p)
    \/ \E p \in Procs : DeductApply(p)
    \/ \E p \in Procs : CreateOrderFinish(p)
    \/ AssignFree

SpecRace == InitRace /\ [][NextRace]_vars

\* the orders an administrator assigns: order 1 of client 1 in any status,
\* with no agent or held by agent 2 or 6; order 2, pending, held by agent 6.
\* The workload limit is 1 or 2.
InitAssign ==
    /\ \E st \in Statuses, a \in {None, 2, 6} :
           orders = (1 :> [NewOrder([client_id |-> 1, agent_id |-> a, bw_quantity |-> 500,
                                     color_quantity |-> 0, external_order_id |-> ""])
                              EXCEPT !.status = st]) @@
                    (2 :> NewOrder([client_id |-> 1, agent_id |-> 6, bw_quantity |-> 100,
                                    color_quantity |-> 200, external_order_id |-> ""]))
    /\ \E limit \in WorkloadLimits :
           config = [CSV_IDEMPOTENCY_MODE |-> CSV_IDEMPOTENCY_MODE, MAX_ACTIVE_ORDERS_DEFAULT |-> limit]
    /\ nextOrderId = 3
    /\ quotas = <<[NewQuota(1, get_current_month) EXCEPT !.bw_used = 600, !.color_used = 200]>>
    /\ locks = {}
    /\ topups = << >>
    /\ auditLog = << >>
    /\ notifications = EmptyBag
    /\ calls = [p \in Procs |-> IdleCall]
    /\ nRefunds = 0
    /\ statusCalls = [s \in StatusProcs |-> IdleStatusCall]
    /\ results = NoResults
    /\ csvImports = << >>
    /\ csvCall = IdleCsvCall

\* assign_order requests, one after the other
NextAssign == Assign

SpecAssign == InitAssign /\ [][NextAssign]_vars

\* everything that runs once orders exist: create_order requests served one
\* after the other (the rows of a CSV import are such requests), whose ledger
\* transaction may raise, a change_order_status request, assignments and
\* unassignments, top-ups, refunds and checks
OrderRequests ==
    { [client_id |-> 1, bw_quantity |-> 1250, color_quantity |-> 0, agent_id |-> 2, external_order_id |-> ""] }

NextOrders ==
    \/ LogOpen /\ \E p \in Procs : Alone(p) /\ CreateOrderStep(p, OrderRequests)
    \/ LogOpen /\ \E p \in Procs : Alone(p) /\ DeductRaise(p)
    \/ LogOpen /\ \E o \in DOMAIN orders : ChangeStatusLoad(1, o, "validated")
    \/ LogOpen /\ ChangeStatusSave(1, 3)
    \/ LogOpen /\ AssignExisting
    \/ LogOpen /\ Topup
    \/ LogOpen /\ RefundQuota(1, 1000, 0)
    \/ LogOpen /\ CheckQuotaAvailable(1, 900, 0, NoDate)

SpecOrders == Init /\ [][NextOrders]_vars

(***************************************************************************)
(* CSVService, app/services/csv_service.py.  A file is a sequence of rows, *)
(* a row the text of its columns client_id, bw_quantity, color_quantity,   *)
(* agent_id and external_order_id (the other columns are empty: no email,  *)
(* no phone, no paper dimensions).                                         *)
(***************************************************************************)
\* the texts that int() converts, and what it converts them to; on any other
\* text int() raises ValueError
Numerals ==
    ("0" :> 0) @@ ("1" :> 1) @@ ("2" :> 2) @@ ("4" :> 4) @@ ("9" :> 9) @@
    ("100" :> 100) @@ ("5000" :> 5000) @@ ("-5" :> -5)

IsInt(text) == text \in DOMAIN Numerals
int(text) == Numerals[text]

\* validate_integer with min_value = 0: validators.py lines 111-130
validate_integer(value, field_name) ==
    IF ~IsInt(value) THEN << <<field_name, "must be a valid integer">> >>
    ELSE IF int(value) < 0 THEN << <<field_name, "must be at least 0">> >>
    ELSE << >>

\* validate_csv_row_data: validators.py lines 157-214, the errors of a row
validate_csv_row_data(row_data) ==
    (IF row_data.client_id = ""
     THEN << <<"client_id", "Either client_id or client_email is required">> >> ELSE << >>)
    \o validate_integer(row_data.bw_quantity, "bw_quantity")
    \o validate_integer(row_data.color_quantity, "color_quantity")
    \o (IF /\ validate_integer(row_data.bw_quantity, "bw_quantity") = << >>
           /\ validate_integer(row_data.color_quantity, "color_quantity") = << >>
           /\ int(row_data.bw_quantity) = 0
           /\ int(row_data.color_quantity) = 0
        THEN << <<"quantity", "At least one of bw_quantity or color_quantity must be greater than 0">> >>
        ELSE << >>)

\* lines 121 and 132: int() of a client_id or agent_id that is no number
\* raises, and line 198 turns that into the failure of the whole parse
RowRaises(row_data) ==
    \/ row_data.client_id # "" /\ ~IsInt(row_data.client_id)
    \/ row_data.agent_id # "" /\ ~IsInt(row_data.agent_id)

ParseRaises(file) == \E i \in 1..Len(file) : RowRaises(file[i])

\* lines 104 and 141-146: the external ids met in the rows before row i
external_ids_seen(file, i) == {file[j].external_order_id : j \in 1..(i - 1)} \ {""}

\* lines 118-123 and 129-134: the user a row names, None when there is none
LookupUser(text) == IF text # "" /\ UserExists(int(text)) THEN int(text) ELSE None

\* a check of the file alone, blind to the orders in the store
DuplicateErrorsFileOnly(file, i) ==
    IF file[i].external_order_id = "" THEN << >>
    ELSE IF file[i].external_order_id \in external_ids_seen(file, i)
    THEN << <<"external_order_id", "Duplicate external_order_id within file">> >>
    ELSE << >>

\* lines 140-152: the external id is a duplicate within the file, or of an
\* order in the store
DuplicateErrors(file, i) ==
    IF file[i].external_order_id = "" THEN << >>
    ELSE IF file[i].external_order_id \in external_ids_seen(file, i)
    THEN << <<"external_order_id", "Duplicate external_order_id within file">> >>
    ELSE IF get_by_external_id(file[i].external_order_id) # None
    THEN << <<"external_order_id", "external_order_id already exists in database">> >>
    ELSE << >>

\* lines 109-171: the result of row i of the file; rows are numbered from 2
RowResult(file, i) ==
    LET row_data == file[i]
        row_errors ==
            validate_csv_row_data(row_data)
            \o (IF row_data.client_id # "" /\ (LookupUser(row_data.client_id) = None
                                               \/ ~is_client(LookupUser(row_data.client_id)))
                THEN << <<"client_id", "Invalid client_id">> >> ELSE << >>)
            \o (IF row_data.agent_id # "" /\ (LookupUser(row_data.agent_id) = None
                                              \/ ~is_agent(LookupUser(row_data.agent_id)))
                THEN << <<"agent_id", "Invalid agent_id">> >> ELSE << >>)
            \o DuplicateErrors(file, i)
    IN [row_number |-> i + 1, data |-> row_data,
        client_id |-> LookupUser(row_data.client_id),
        agent_id |-> LookupUser(row_data.agent_id),
        errors |-> row_errors, is_valid |-> row_errors = << >>]

\* parse_and_validate_csv, lines 100-179: the rows of the validation result
ParsedRows(file) == [i \in 1..Len(file) |-> RowResult(file, i)]

\* the keys of the corrections: a row number, as an int or as its text
IntKey(n) == [type |-> "int", value |-> n]
StrKey(n) == [type |-> "str", value |-> n]

\* dict.update
Updated(data, corrected_data) ==
    [f \in DOMAIN data \cup DOMAIN corrected_data |->
        IF f \in DOMAIN corrected_data THEN corrected_data[f] ELSE data[f]]

\* lines 221-229: the row whose number equals a key gets the corrected data
\* and the verdict of validate_csv_row_data on them; row['client_id'],
\* row['agent_id'] and row['errors'] stay as the parse left them
Corrected(row, corrections) ==
    IF IntKey(row.row_number) \in DOMAIN corrections
    THEN LET data == Updated(row.data, corrections[IntKey(row.row_number)])
         IN [row EXCEPT !.data = data, !.is_valid = validate_csv_row_data(data) = << >>]
    ELSE row

ApplyCorrections(rows, corrections) == [i \in 1..Len(rows) |-> Corrected(rows[i], corrections)]

IsValid(row) == row.is_valid

\* lines 245-257: the create_order request of a row
RowRequest(row, import_id) ==
    [client_id |-> row.client_id,
     bw_quantity |-> int(row.data.bw_quantity),
     color_quantity |-> int(row.data.color_quantity),
     agent_id |-> row.agent_id,
     external_order_id |-> row.data.external_order_id,
     import_id |-> import_id]

\* the request has returned; it has been made n times
CsvReturn(c, ok, error) == [c EXCEPT !.pc = "done", !.ok = ok, !.error = error]

\* a request that goes on to the import with whatever rows there are
AfterValidationUnchecked(c, valid_rows) == [c EXCEPT !.pc = "import", !.rows = valid_rows, !.idx = 1]

\* lines 232-239: without a valid row the request ends, otherwise the loop
\* starts at the first valid row
AfterValidation(c, valid_rows) ==
    IF valid_rows = << >>
    THEN CsvReturn(c, "failure", "No valid rows to import")
    ELSE [c EXCEPT !.pc = "import", !.rows = valid_rows, !.idx = 1]

\* validate_and_import, lines 214-235: the file is parsed and the counts of
\* the parse are saved (lines 181-185), the corrections are applied and the
\* valid rows selected.  A parse that raises, and a batch with no valid row,
\* end the request.
ValidateAndImportBegin(import_id, validated_by_id, corrections) ==
    /\ csvCall.pc \in {"idle", "done"}
    /\ csvCall.n < MaxCsvCalls
    /\ LET c == [IdleCsvCall EXCEPT !.n = csvCall.n + 1, !.import_id = import_id,
                                    !.validated_by_id = validated_by_id,
                                    !.corrections = corrections]
       IN IF import_id \notin DOMAIN csvImports
          THEN /\ csvCall' = CsvReturn(c, "failure", "CSV import not found")
               /\ UNCHANGED csvImports
          ELSE IF ParseRaises(csvImports[import_id].file)
          THEN /\ csvCall' = CsvReturn(c, "failure", "Failed to parse CSV: exception")
               /\ UNCHANGED csvImports
          ELSE LET rows == ParsedRows(csvImports[import_id].file)
                   valid_rows == SelectSeq(ApplyCorrections(rows, corrections), IsValid)
               IN /\ csvImports' = [csvImports EXCEPT
                         ![import_id].row_count = Len(rows),
                         ![import_id].valid_rows = Len(SelectSeq(rows, IsValid)),
                         ![import_id].error_rows = Len(rows) - Len(SelectSeq(rows, IsValid))]
                  /\ csvCall' = AfterValidation(c, valid_rows)
    /\ UNCHANGED <<quotas, locks, topups, orders, nextOrderId, auditLog, notifications,
                   calls, nRefunds, statusCalls, results, config>>

\* lines 241-257: create_order is called for the next valid row (its steps
\* are those of request 1)
ImportRowBegin ==
    /\ csvCall.pc = "import"
    /\ csvCall.idx <= Len(csvCall.rows)
    /\ CreateOrderBegin(1, RowRequest(csvCall.rows[csvCall.idx], csvCall.import_id))

\* lines 259-262: create_order has returned; the id of the order, or the
\* error with the number of the row, is kept and the loop goes on
ImportRowReturn ==
    /\ csvCall.pc = "import"
    /\ calls[1].pc = "done"
    /\ csvCall' =
         IF calls[1].ok = "success"
         THEN [csvCall EXCEPT !.imported_orders = Append(@, calls[1].order_id), !.idx = @ + 1]
         ELSE [csvCall EXCEPT !.import_errors =
                    Append(@, [row_number |-> csvCall.rows[csvCall.idx].row_number,
                               error |-> calls[1].error]),
                              !.idx = @ + 1]
    /\ calls' = [calls EXCEPT ![1] = IdleCall]
    /\ UNCHANGED <<quotas, locks, topups, orders, nextOrderId, auditLog, notifications,
                   nRefunds, statusCalls, results, config, csvImports>>

\* CSVImport.mark_validated: csv_import.py lines 84-93
mark_validated(csv_import, validated_by_id, valid_count, error_count) ==
    [csv_import EXCEPT !.status = "validated", !.validated_by = validated_by_id,
                       !.valid_rows = valid_count, !.error_rows = error_count]

\* CSVImport.mark_rejected: csv_import.py lines 95-101
mark_rejected(csv_import, validated_by_id) ==
    [csv_import EXCEPT !.status = "rejected", !.validated_by = validated_by_id]

\* lines 264-306: after the last row the import is marked validated, the
\* CSV_VALIDATED entry is written, the administrator is told and the result
\* is returned
ImportFinish ==
    /\ csvCall.pc = "import"
    /\ csvCall.idx > Len(csvCall.rows)
    /\ calls[1].pc = "idle"
    /\ csvImports' = [csvImports EXCEPT ![csvCall.import_id] =
           mark_validated(@, csvCall.validated_by_id,
                          Len(csvCall.imported_orders), Len(csvCall.import_errors))]
    /\ auditLog' = Append(auditLog,
           [action |-> "CSV_VALIDATED", user_id |-> csvCall.validated_by_id,
            details |-> [import_id |-> csvCall.import_id,
                         imported_orders |-> Len(csvCall.imported_orders),
                         errors |-> Len(csvCall.import_errors)]])
    /\ notifications' = AddNotification(notifications, csvCall.validated_by_id, "success", None)
    /\ csvCall' = CsvReturn(csvCall, "success", "")
    /\ UNCHANGED <<quotas, locks, topups, orders, nextOrderId, calls, nRefunds,
                   statusCalls, results, config>>

\* the reject_import requests granted so far
RejectCount == Cardinality({i \in 1..Len(auditLog) : auditLog[i].action = "CSV_REJECTED"})

\* reject_import, lines 324-353
RejectImport(import_id, rejected_by_id) ==
    /\ IF import_id \notin DOMAIN csvImports
       THEN /\ results' = [results EXCEPT !["reject_import"] =
                   Result("failure", "CSV import not found", << >>, << >>)]
            /\ UNCHANGED <<csvImports, auditLog, notifications>>
       ELSE /\ RejectCount < MaxRejects
            /\ csvImports' = [csvImports EXCEPT ![import_id] = mark_rejected(@, rejected_by_id)]
            /\ auditLog' = Append(auditLog,
                   [action |-> "CSV_REJECTED", user_id |-> rejected_by_id,
                    details |-> [import_id |-> import_id]])
            /\ notifications' = AddNotification(notifications, csvImports[import_id].uploaded_by,
                                                "error", None)
            /\ results' = [results EXCEPT !["reject_import"] = Result("success", "", << >>, << >>)]
    /\ UNCHANGED <<quotas, locks, topups, orders, nextOrderId, calls, nRefunds,
                   statusCalls, config, csvCall>>

\* the row record upload_csv saves: lines 56-62
NewImport(uploaded_by_id, file) ==
    [uploaded_by |-> uploaded_by_id, file |-> file, status |-> "pending_validation",
     validated_by |-> None, row_count |-> 0, valid_rows |-> 0, error_rows |-> 0]

Row(client_id, bw_quantity, color_quantity, agent_id, external_order_id) ==
    [client_id |-> client_id, bw_quantity |-> bw_quantity, color_quantity |-> color_quantity,
     agent_id |-> agent_id, external_order_id |-> external_order_id]

\* the files administrators upload.  Scenario E: five rows, the third names
\* a client that does not exist
FileScenarioE ==
    << Row("1", "100", "0", "", ""), Row("1", "100", "0", "2", ""), Row("9", "100", "0", "", ""),
       Row("1", "0", "100", "", ""), Row("1", "100", "0", "", "") >>

\* external ids: "B" twice, "A" (order 1 carries it), and a row without one
FileDuplicates ==
    << Row("1", "100", "0", "", "B"), Row("1", "100", "0", "", "B"),
       Row("1", "100", "0", "", "A"), Row("1", "100", "0", "", "") >>

\* rows create_order refuses (an inactive client, more than the quota has)
\* between rows it accepts
FileRefusals ==
    << Row("4", "100", "0", "", ""), Row("1", "100", "0", "", ""),
       Row("1", "5000", "0", "", ""), Row("1", "100", "0", "2", "") >>

\* no row passes validation
FileNoValidRows ==
    << Row("9", "100", "0", "", ""), Row("1", "0", "0", "", ""), Row("", "100", "0", "", ""),
       Row("1", "-5", "0", "", "") >>

\* a client_id that is no number, after a row that is valid
FileNotANumber ==
    << Row("1", "100", "0", "", ""), Row("abc", "100", "0", "", "") >>

CsvFiles == {FileScenarioE, FileDuplicates, FileRefusals, FileNoValidRows, FileNotANumber}

\* the corrections of a request: none; a client for row 4 (the third row of
\* the file), keyed by the number or, as in a JSON body, by its text; a
\* quantity for row 3
CorrectionInputs ==
    { << >>,
      IntKey(4) :> [client_id |-> "1"],
      StrKey(4) :> [client_id |-> "1"],
      IntKey(3) :> [bw_quantity |-> "100"] }

\* one uploaded file, pending validation, in the running system, under each
\* idempotency mode
InitCsv ==
    /\ \E file \in CsvFiles : csvImports = 1 :> NewImport(3, file)
    /\ csvCall = IdleCsvCall
    /\ \E mode \in IdempotencyModes :
           config = [DefaultConfig EXCEPT !.CSV_IDEMPOTENCY_MODE = mode]
    /\ orders = RunningOrders
    /\ nextOrderId = 3
    /\ quotas = <<[NewQuota(1, get_current_month) EXCEPT !.bw_used = 600]>>
    /\ locks = {}
    /\ topups = << >>
    /\ auditLog = << >>
    /\ notifications = EmptyBag
    /\ calls = [p \in Procs |-> IdleCall]
    /\ nRefunds = 0
    /\ statusCalls = [s \in StatusProcs |-> IdleStatusCall]
    /\ results = NoResults

\* validate_and_import requests of an administrator, one after the other,
\* on the import or on an id no import has, and reject_import requests on
\* the import, at any moment
NextCsv ==
    \/ \E i \in {1, 2}, cs \in CorrectionInputs : ValidateAndImportBegin(i, 3, cs)
    \/ ImportRowBegin
    \/ CreateOrderSave(1)
    \/ DeductLock(1)
    \/ DeductApply(1)
    \/ CreateOrderFinish(1)
    \/ ImportRowReturn
    \/ ImportFinish
    \/ RejectImport(1, 3)

SpecCsv == InitCsv /\ [][NextCsv]_vars


\* a workload limit of 1: agent 2 holds no order, order 1 of client 1 waits
\* for an agent
InitIsolation ==
    /\ config = [DefaultConfig EXCEPT !.MAX_ACTIVE_ORDERS_DEFAULT = 1]
    /\ orders = 1 :> NewOrder([client_id |-> 1, agent_id |-> None, bw_quantity |-> 100,
                               color_quantity |-> 0, external_order_id |-> ""])
    /\ nextOrderId = 2
    /\ quotas = <<[NewQuota(1, get_current_month) EXCEPT !.bw_used = 100]>>
    /\ locks = {}
    /\ topups = << >>
    /\ auditLog = << >>
    /\ notifications = EmptyBag
    /\ calls = [p \in Procs |-> IdleCall]
    /\ nRefunds = 0
    /\ statusCalls = [s \in StatusProcs |-> IdleStatusCall]
    /\ results = NoResults
    /\ csvImports = << >>
    /\ csvCall = IdleCsvCall

\* two orders of 1500 pages, one of them for agent 2: the quota has room
\* for each, not for both
IsolationRequests ==
    { [client_id |-> 1, bw_quantity |-> 1500, color_quantity |-> 0, agent_id |-> 2, external_order_id |-> ""],
      [client_id |-> 1, bw_quantity |-> 1500, color_quantity |-> 0, agent_id |-> None, external_order_id |-> ""] }

\* concurrent create_order requests, and assignments of agent 2 to orders
\* without an agent.  No usage reaches the warning threshold.
NextIsolation ==
    \/ \E p \in Procs : \E r \in IsolationRequests : CreateOrderBegin(p, r)
    \/ \E p \in Procs : CreateOrderSave(p)
    \/ \E p \in Procs : DeductLock(p)
    \/ \E p \in Procs : DeductApply(p)
    \/ \E p \in Procs : CreateOrderCompensate(p)
    \/ \E p \in Procs : CreateOrderFinish(p)
    \/ AssignFree

SpecIsolation == InitIsolation /\ [][NextIsolation]_vars

(***************************************************************************)
(* Properties of the quota ledger and of order admission.                  *)
(***************************************************************************)
\* the quantities of the create_order requests that returned success
RECURSIVE AdmittedSum(_, _, _)
AdmittedSum(client_id, channel, p) ==
    IF p > NumCalls THEN 0
    ELSE (IF calls[p].ok = "success" /\ calls[p].client_id = client_id
          THEN (IF channel = "bw" THEN calls[p].bw_quantity ELSE calls[p].color_quantity)
          ELSE 0)
         + AdmittedSum(client_id, channel, p + 1)

Clients == {u \in DOMAIN Users : is_client(u)}

\* the quota row of a client for the current month, as every request finds it
CurrentQuota(client_id) == quotas[FirstQuota(quotas, client_id, get_current_month)]

HasQuota(client_id) == FirstQuota(quotas, client_id, get_current_month) # None

QuotaErrors == {"Insufficient quota", "Failed to deduct quota: Insufficient quota"}

(* C1: quota conservation.  In every interleaving of concurrent create_order
   requests for one client and month, the bw quantities of the requests that
   returned success add up to at most bw_limit plus the month's top-ups, and
   likewise for color. *)
QuotaConservation ==
    \A u \in Clients :
        IF HasQuota(u)
        THEN /\ AdmittedSum(u, "bw", 1) <= get_total_bw(CurrentQuota(u), topups)
             /\ AdmittedSum(u, "color", 1) <= get_total_color(CurrentQuota(u), topups)
        ELSE AdmittedSum(u, "bw", 1) = 0 /\ AdmittedSum(u, "color", 1) = 0

\* one request was admitted and a concurrent one, which had passed the first
\* check, was refused by the check made under the lock
QuotaConservationWitness ==
    \E p, q \in Procs :
        /\ calls[p].ok = "success"
        /\ calls[q].ok = "failure"
        /\ calls[q].error = "Failed to deduct quota: Insufficient quota"
        /\ AdmittedSum(1, "bw", 1) + calls[q].bw_quantity > get_total_bw(CurrentQuota(1), topups)

(* C2: the ledger invariant.  In every reachable state every quota row has,
   on each channel, used <= limit + the top-ups of its month, whatever
   create_order, deduct, refund and top-up steps led there. *)
LedgerInvariant ==
    \A i \in 1..Len(quotas) :
        /\ quotas[i].bw_used >= 0
        /\ quotas[i].color_used >= 0
        /\ quotas[i].bw_used <= get_total_bw(quotas[i], topups)
        /\ quotas[i].color_used <= get_total_color(quotas[i], topups)

\* a row used up to its total, beyond its base limit, after a refund was made
LedgerInvariantWitness ==
    \E i \in 1..Len(quotas) :
        /\ quotas[i].bw_used = get_total_bw(quotas[i], topups)
        /\ quotas[i].bw_used > quotas[i].bw_limit
        /\ nRefunds > 0

(* C3: Scenario B.  Two create_order requests of bw_quantity 2000 for one
   client and month, against bw_limit 3000, bw_used 0 and no top-up: in every
   interleaving, once both have returned exactly one has succeeded, the other
   has failed with a quota error, bw_used is 2000 (1000 available) and exactly
   one order exists. *)
ScenarioB ==
    LET started == {p \in Procs : calls[p].pc # "idle"}
    IN (/\ Cardinality(started) = 2
        /\ \A p \in started : calls[p].pc = "done" /\ calls[p].client_id = 1
                              /\ calls[p].bw_quantity = 2000
        /\ topups = << >>)
       => /\ \E p \in started :
               /\ calls[p].ok = "success"
               /\ \A q \in started \ {p} :
                      calls[q].ok = "failure" /\ calls[q].error \in QuotaErrors
          /\ CurrentQuota(1).bw_limit = 3000
          /\ CurrentQuota(1).bw_used = 2000
          /\ get_available_bw(CurrentQuota(1), topups) = 1000
          /\ Cardinality(DOMAIN orders) = 1

\* both requests passed the first check; the lock decided between them
ScenarioBWitness ==
    /\ Cardinality({p \in Procs : calls[p].pc = "done" /\ calls[p].bw_quantity = 2000}) = 2
    /\ \A p \in Procs : calls[p].pc \in {"idle", "done"}
    /\ topups = << >>
    /\ \E p \in Procs : calls[p].error = "Failed to deduct quota: Insufficient quota"
    /\ Cardinality(DOMAIN orders) = 1

(* C4: compensation correctness.  When deduct_quota has returned failure to
   a create_order request that had saved its order, then once the request has
   returned that order does not exist and the request has returned failure. *)
CompensationCorrect ==
    \A p \in Procs :
        (calls[p].pc = "done" /\ calls[p].deduct_ok = "fail")
        => /\ calls[p].order_id # None
           /\ calls[p].order_id \notin DOMAIN orders
           /\ calls[p].ok = "failure"

\* a request whose deduction failed has returned, while the order of another
\* request exists
CompensationCorrectWitness ==
    \E p \in Procs :
        /\ calls[p].pc = "done"
        /\ calls[p].deduct_ok = "fail"
        /\ calls[p].order_id # None
        /\ orders # << >>

(* C5: order/quota atomicity.  Once a create_order request has returned,
   either its order exists and its quantities have been added to the used
   counters, or its order does not exist and the counters carry no deduction
   of that request. *)
OrderQuotaAtomic ==
    \A p \in Procs :
        calls[p].pc = "done"
        => \/ calls[p].order_id \in DOMAIN orders /\ calls[p].deducted
           \/ calls[p].order_id \notin DOMAIN orders /\ ~calls[p].deducted

(* C6: clean rollback.  When a create_order request has returned failure,
   whatever step failed (the audit-log write and a notification write after
   the deduction included), no order of that request exists and the used
   counters carry no deduction of that request. *)
RollbackClean ==
    \A p \in Procs :
        (calls[p].pc = "done" /\ calls[p].ok = "failure")
        => /\ calls[p].order_id \notin DOMAIN orders
           /\ ~calls[p].deducted

(* C7: a failure of the threshold alert does not fail the quota operation.
   Once deduct_quota has committed its deduction it does not return failure,
   even when sending the alert or saving the alert flag raises. *)
AlertFailureTolerated ==
    \A p \in Procs : calls[p].deducted => calls[p].deduct_ok # "fail"

\* the warning-threshold alerts a client has received on a channel
AlertsSent(client_id, alert_type) ==
    CopiesIn([user_id |-> client_id, kind |-> AlertKind(alert_type), related_order_id |-> None],
             notifications)

(* C8: alert latch.  Over all deduct_quota calls for one client and month,
   in every interleaving, the warning-threshold alert of a channel is sent at
   most once. *)
AlertLatch ==
    \A u \in Clients : AlertsSent(u, "bw") <= 1 /\ AlertsSent(u, "color") <= 1

(***************************************************************************)
(* Properties of the order lifecycle.                                      *)
(***************************************************************************)
\* the transition table as the specification states it
Allowed(status) ==
    IF status = "pending" THEN {"validated"}
    ELSE IF status = "validated" THEN {"processing"}
    ELSE IF status = "processing" THEN {"completed"}
    ELSE {}

(* C9: transition closure.  A change_order_status request on an existing
   order returns success if and only if the requested status is in the
   allowed set of the status the request found the order in, where allowed
   is pending -> {validated}, validated -> {processing},
   processing -> {completed}, completed -> {}: a request outside the table
   returns failure and changes nothing, a request inside it goes on to save
   the requested status and returns success. *)
TransitionClosure ==
    [][\A s \in StatusProcs :
          /\ \A o \in DOMAIN orders, st \in StatusInputs :
                 ChangeStatusLoad(s, o, st)
                 => IF st \in Allowed(orders[o].status)
                    THEN statusCalls'[s].pc = "loaded"
                    ELSE statusCalls'[s].pc = "done" /\ statusCalls'[s].ok = "failure"
          /\ (statusCalls[s].pc = "loaded" /\ statusCalls'[s].pc = "done")
             => /\ statusCalls'[s].ok = "success"
                /\ statusCalls[s].new_status \in Allowed(statusCalls[s].old_status)
                /\ orders'[statusCalls[s].order_id].status = statusCalls[s].new_status
          /\ (statusCalls[s].pc # "done" /\ statusCalls'[s].ok = "failure")
             => orders' = orders]_vars

\* one request has changed a status and another one was refused its transition
TransitionClosureWitness ==
    /\ \E s \in StatusProcs : statusCalls[s].ok = "success"
    /\ \E s \in StatusProcs : statusCalls[s].error = "Invalid status transition"
    /\ \E o \in DOMAIN orders : orders[o].status = "processing"

(* C10: over any execution the statuses an order takes are a prefix of
   pending, validated, processing, completed: an order starts in pending,
   and each change of its status is a move to the next state (never
   backwards, never skipping, never out of completed). *)
StatusSequence ==
    [][\A o \in DOMAIN orders' :
          IF o \in DOMAIN orders
          THEN \/ orders'[o].status = orders[o].status
               \/ orders'[o].status \in Allowed(orders[o].status)
          ELSE orders'[o].status = "pending"]_vars

\* the allowed next states as an error message enumerates them
AllowedNames(status) ==
    IF Allowed(status) = {} THEN {"none"} ELSE Allowed(status)

\* the elements of a list
Range(f) == {f[i] : i \in DOMAIN f}

(* C11: a change_order_status request whose requested status is not allowed
   for the status of the order (the same state, a skip ahead, a step back,
   an unknown value, anything on a completed order) fails with an error that
   names the current status and enumerates the allowed next states, 'none'
   for a completed order; it leaves the status of the order unchanged,
   appends no audit entry and creates no notification.  A request on a
   missing order fails with 'Order not found' and changes nothing. *)
InvalidTransitionRefused ==
    [][\A s \in StatusProcs, st \in StatusInputs :
          /\ \A o \in DOMAIN orders :
                 (ChangeStatusLoad(s, o, st) /\ st \notin Allowed(orders[o].status))
                 => /\ statusCalls'[s].pc = "done"
                    /\ statusCalls'[s].ok = "failure"
                    /\ statusCalls'[s].error = "Invalid status transition"
                    /\ statusCalls'[s].msg_from = orders[o].status
                    /\ Range(statusCalls'[s].msg_allowed) = AllowedNames(orders[o].status)
                    /\ Len(statusCalls'[s].msg_allowed) = Cardinality(AllowedNames(orders[o].status))
                    /\ orders' = orders
                    /\ auditLog' = auditLog
                    /\ notifications' = notifications
          /\ ChangeStatusLoad(s, nextOrderId, st)
             => /\ statusCalls'[s].pc = "done"
                /\ statusCalls'[s].ok = "failure"
                /\ statusCalls'[s].error = "Order not found"
                /\ orders' = orders
                /\ auditLog' = auditLog
                /\ notifications' = notifications]_vars

\* a completed order was asked to change and the request was told 'none';
\* a request on a missing order was refused too
InvalidTransitionRefusedWitness ==
    /\ \E s \in StatusProcs : /\ statusCalls[s].error = "Invalid status transition"
                              /\ statusCalls[s].msg_from = "completed"
                              /\ statusCalls[s].msg_allowed = <<"none">>
    /\ \E s \in StatusProcs : statusCalls[s].error = "Order not found"

\* the notifications of a user about an order
NotificationsOf(n, user_id, order_id) ==
    CopiesIn([user_id |-> user_id, kind |-> "status_change", related_order_id |-> order_id], n)

(* C12: a successful change_order_status appends exactly one
   ORDER_STATUS_CHANGE audit entry carrying the order id, the old status (the
   one the request found the order in) and the new status, and creates one
   notification for the client of the order and, if and only if the order
   has an agent assigned, one for that agent. *)
StatusChangeRecorded ==
    [][\A s \in StatusProcs :
          (statusCalls[s].pc = "loaded" /\ statusCalls'[s].ok = "success")
          => LET c == statusCalls[s]
                 o == orders[c.order_id]
             IN /\ Len(auditLog') = Len(auditLog) + 1
                /\ SubSeq(auditLog', 1, Len(auditLog)) = auditLog
                /\ auditLog'[Len(auditLog')].action = "ORDER_STATUS_CHANGE"
                /\ auditLog'[Len(auditLog')].details =
                       [order_id |-> c.order_id, old_status |-> c.old_status,
                        new_status |-> c.new_status]
                /\ orders'[c.order_id].status = c.new_status
                /\ NotificationsOf(notifications', o.client_id, c.order_id)
                      = NotificationsOf(notifications, o.client_id, c.order_id) + 1
                /\ BagCardinality(notifications') = BagCardinality(notifications)
                      + (IF o.agent_id # None THEN 2 ELSE 1)
                /\ o.agent_id # None
                      => NotificationsOf(notifications', o.agent_id, c.order_id)
                           = NotificationsOf(notifications, o.agent_id, c.order_id) + 1]_vars

\* an order with an agent has changed status: its client and its agent were told
StatusChangeRecordedWitness ==
    \E o \in DOMAIN orders :
        /\ orders[o].agent_id # None
        /\ orders[o].status = "processing"
        /\ NotificationsOf(notifications, orders[o].agent_id, o) >= 1
        /\ NotificationsOf(notifications, orders[o].client_id, o) >= 1
        /\ \E i \in 1..Len(auditLog) : auditLog[i].action = "ORDER_STATUS_CHANGE"

\* how the used counters of the rows move in a step
UsedNotBelow == \A i \in 1..Len(quotas) :
    quotas'[i].bw_used >= quotas[i].bw_used /\ quotas'[i].color_used >= quotas[i].color_used

UsedNotAbove == \A i \in 1..Len(quotas) :
    quotas'[i].bw_used <= quotas[i].bw_used /\ quotas'[i].color_used <= quotas[i].color_used

(* C13: the used counters of a quota row change only through the ledger.  A
   step of deduct_quota never decreases bw_used or color_used, a refund_quota
   never increases them, and every other step (change_order_status, the
   assignment and unassignment of an agent, create_topup,
   check_quota_available, the rest of create_order) leaves them as they
   are; no row disappears. *)
UsedOnlyByLedger ==
    [][/\ Len(quotas') >= Len(quotas)
       /\ IF \E p \in Procs : DeductApply(p) THEN UsedNotBelow
          ELSE IF Refund THEN UsedNotAbove
          ELSE UsedNotBelow /\ UsedNotAbove]_vars

\* quota was deducted, then a part of it refunded, a check was made and a
\* status change is under way
UsedOnlyByLedgerWitness ==
    /\ statusCalls[1].pc = "loaded"
    /\ results["check"].ok = "success"
    /\ \E i \in 1..Len(auditLog) : auditLog[i].action = "QUOTA_REFUND"
    /\ \E p \in Procs : calls[p].ok = "success" /\ calls[p].bw_quantity = 2000
    /\ CurrentQuota(1).bw_used = 1000

\* limit + the top-ups of the month of the row - used, per channel
SpecAvailable(q, channel) ==
    IF channel = "bw"
    THEN q.bw_limit + SumTopups(topups, q.client_id, q.month, "bw", 1) - q.bw_used
    ELSE q.color_limit + SumTopups(topups, q.client_id, q.month, "color", 1) - q.color_used

(* C14: check_quota_available(client, bw, color, month) reports success if
   and only if bw <= bw_limit + the bw top-ups of the month - bw_used and
   color <= color_limit + the color top-ups of the month - color_used; on
   success it reports exactly those two available amounts.  Scenario A:
   limit 3000, used 0, no top-up, a request of 3100 fails with available
   3000.  Scenario D: limit 3000, used 2900 and a top-up of 1000 make a
   request of 900 succeed, with 1100 available. *)
CheckAvailable ==
    [][\A t \in CheckInputs, d \in Dates :
          CheckQuotaAvailable(1, t[1], t[2], d)
          => LET q == quotas'[FirstQuota(quotas', 1, MonthOf(d))]
                 r == results'["check"]
             IN /\ r.ok \in {"success", "failure"}
                /\ r.ok = "success" <=> (t[1] <= SpecAvailable(q, "bw") /\ t[2] <= SpecAvailable(q, "color"))
                /\ r.ok = "success"
                      => r.data[1] = SpecAvailable(q, "bw") /\ r.data[2] = SpecAvailable(q, "color")
                /\ (q.bw_limit = 3000 /\ q.bw_used = 0 /\ t[1] = 3100
                    /\ SumTopups(topups, 1, q.month, "bw", 1) = 0)
                      => r.ok = "failure" /\ r.detail[1] = 3000 /\ r.detail[3] = 3100
                /\ (q.bw_limit = 3000 /\ q.bw_used = 2900 /\ t[1] = 900 /\ t[2] = 0
                    /\ SumTopups(topups, 1, q.month, "bw", 1) = 1000)
                      => r.ok = "success" /\ r.data[1] = 1100]_vars

\* Scenario D has happened
CheckAvailableWitness ==
    /\ HasQuota(1)
    /\ CurrentQuota(1).bw_limit = 3000
    /\ CurrentQuota(1).bw_used = 2900
    /\ SumTopups(topups, 1, get_current_month, "bw", 1) = 1000
    /\ results["check"].ok = "success"
    /\ results["check"].data = <<1100, 2000, 2900, 0>>

\* a call that names the month by the date d finds the row qid
Resolves(d, client_id) == FirstQuota(quotas, client_id, MonthOf(d))

(* C15: a quota row is identified by (client_id, first day of the month).
   In every reachable state there is at most one row per client and month,
   also when two requests make the first quota check of the pair at the same
   time; the month of a row is a first of month; and two dates of the same
   month resolve to the same row. *)
QuotaRowUnique ==
    /\ \A i, j \in 1..Len(quotas) :
           (quotas[i].client_id = quotas[j].client_id
            /\ quotas[i].month.year = quotas[j].month.year
            /\ quotas[i].month.month = quotas[j].month.month) => i = j
    /\ \A i \in 1..Len(quotas) : quotas[i].month.day = 1
    /\ \A d1, d2 \in Dates \cup {Today} :
           (MonthOf(d1).year = MonthOf(d2).year /\ MonthOf(d1).month = MonthOf(d2).month)
           => Resolves(d1, 1) = Resolves(d2, 1)

\* two requests found no row at the same time: one inserted it, the other was
\* refused its insert; the row was then found by a check naming another day
QuotaRowUniqueWitness ==
    /\ \E p \in Procs : calls[p].error = "Failed to create order: exception"
    /\ \E p \in Procs : calls[p].ok = "success"
    /\ results["check"].ok # "none"
    /\ Len(quotas) >= 1
    /\ Resolves([year |-> 2025, month |-> 11, day |-> 28], 1) = 1

(* C16: refund_quota never drives a used counter below zero: it sets used to
   max(0, used - quantity) on each channel, however many times it is
   repeated; on a client and month with no quota row it returns success,
   creates no row and changes no state. *)
RefundFloored ==
    [][\A t \in RefundInputs :
          RefundQuota(1, t[1], t[2])
          => /\ results'["refund"].ok = "success"
             /\ Len(quotas') = Len(quotas)
             /\ IF HasQuota(1)
                THEN LET q == CurrentQuota(1)
                         qn == quotas'[FirstQuota(quotas, 1, get_current_month)]
                     IN /\ qn.bw_used = (IF q.bw_used >= t[1] THEN q.bw_used - t[1] ELSE 0)
                        /\ qn.color_used = (IF q.color_used >= t[2] THEN q.color_used - t[2] ELSE 0)
                        /\ qn.bw_used >= 0 /\ qn.color_used >= 0
                ELSE /\ quotas' = << >>
                     /\ <<topups, orders, auditLog, notifications, locks>>'
                          = <<topups, orders, auditLog, notifications, locks>>]_vars

\* the same refund twice: the second found less used than it gives back
RefundFlooredWitness ==
    /\ nRefunds = 2
    /\ HasQuota(1)
    /\ CurrentQuota(1).bw_used = 0
    /\ CurrentQuota(1).color_used = 1800
    /\ Cardinality({i \in 1..Len(auditLog) : auditLog[i].action = "QUOTA_REFUND"
                                              /\ auditLog[i].details.bw_refunded = 1000}) = 2

\* the requests the specification rejects: both amounts zero, or a nonzero
\* amount below the minimum
MustReject(bw_added, color_added) ==
    \/ bw_added = 0 /\ color_added = 0
    \/ bw_added # 0 /\ bw_added < MIN_TOPUP_AMOUNT
    \/ color_added # 0 /\ color_added < MIN_TOPUP_AMOUNT

(* C19: create_topup is rejected if and only if both added amounts are zero
   or a nonzero amount is below the configured minimum top-up amount; a
   rejected call persists no top-up, no audit entry and no notification. *)
TopupValidated ==
    [][\A t \in TopupCalls :
          CreateTopup(1, 3, t[1], t[2])
          => /\ results'["topup"].ok \in {"success", "failure"}
             /\ results'["topup"].ok = "failure" <=> MustReject(t[1], t[2])
             /\ results'["topup"].ok = "failure"
                   => /\ topups' = topups
                      /\ auditLog' = auditLog
                      /\ notifications' = notifications
             /\ results'["topup"].ok = "success"
                   => /\ Len(topups') = Len(topups) + 1
                      /\ topups'[Len(topups')].bw_added = t[1]
                      /\ topups'[Len(topups')].color_added = t[2]]_vars

\* a top-up was granted, then one was refused for its color amount
TopupValidatedWitness ==
    /\ results["topup"].ok = "failure"
    /\ results["topup"].error = "Color top-up must be at least min_topup prints"
    /\ Len(auditLog) = 1
    /\ auditLog[1].action = "QUOTA_TOPUP"
    /\ Len(topups) = 1

\* the row a call for the current month works on: the one there is, or the
\* one it would insert
RowOrNew(client_id) ==
    IF HasQuota(client_id) THEN CurrentQuota(client_id) ELSE NewQuota(client_id, get_current_month)

(* C20: top-ups are additive and separate from the base limit.  A successful
   create_topup(b, c) leaves bw_limit, color_limit, bw_used and color_used of
   every quota row and every existing top-up unchanged, and raises the
   available bw and color of the month of the top-up by exactly b and c; no
   later operation modifies or removes a top-up. *)
TopupAdditive ==
    [][/\ Len(topups') >= Len(topups)
       /\ SubSeq(topups', 1, Len(topups)) = topups
       /\ \A t \in TopupCalls :
              (CreateTopup(1, 3, t[1], t[2]) /\ results'["topup"].ok = "success")
              => /\ quotas' = quotas
                 /\ Len(topups') = Len(topups) + 1
                 /\ get_available_bw(RowOrNew(1), topups')
                       = get_available_bw(RowOrNew(1), topups) + t[1]
                 /\ get_available_color(RowOrNew(1), topups')
                       = get_available_color(RowOrNew(1), topups) + t[2]]_vars

\* a top-up was granted on a row in use, and operations followed it
TopupAdditiveWitness ==
    /\ Len(topups) = 1
    /\ HasQuota(1)
    /\ CurrentQuota(1).bw_used = 2000
    /\ CurrentQuota(1).bw_limit = DEFAULT_BW_LIMIT
    /\ get_available_bw(CurrentQuota(1), topups) = 2000
    /\ Len(auditLog) = 2
    /\ auditLog[1].action = "QUOTA_TOPUP"

\* used / (limit + top-ups) of a channel is at or above the warning threshold
ThresholdReached(q, channel) ==
    LET total == IF channel = "bw" THEN q.bw_limit + SumTopups(topups, q.client_id, q.month, "bw", 1)
                 ELSE q.color_limit + SumTopups(topups, q.client_id, q.month, "color", 1)
        used == IF channel = "bw" THEN q.bw_used ELSE q.color_used
    IN total > 0 /\ used * ThresholdDen >= total * ThresholdNum

TotalZero(q, channel) ==
    IF channel = "bw" THEN q.bw_limit + SumTopups(topups, q.client_id, q.month, "bw", 1) = 0
    ELSE q.color_limit + SumTopups(topups, q.client_id, q.month, "color", 1) = 0

FlagSet(q, channel) == IF channel = "bw" THEN q.bw_alert_sent ELSE q.color_alert_sent

\* what holds of the rows whenever no request is in progress
AlertedWhenReached(qs, ns, cs) ==
    \A i \in 1..Len(qs), ch \in {"bw", "color"} :
        /\ ((\A p \in Procs : cs[p].pc \in {"idle", "done"}) /\ ThresholdReached(qs[i], ch))
           => /\ FlagSet(qs[i], ch)
              /\ CopiesIn([user_id |-> qs[i].client_id, kind |-> AlertKind(ch),
                            related_order_id |-> None], ns) >= 1
        /\ TotalZero(qs[i], ch)
           => /\ ~FlagSet(qs[i], ch)
              /\ CopiesIn([user_id |-> qs[i].client_id, kind |-> AlertKind(ch),
                            related_order_id |-> None], ns) = 0

(* C17: when a successful deduct_quota leaves used / (limit + top-ups) of a
   channel at or above the warning threshold (80%) and the alert flag of the
   channel is not yet set, an alert notification is created for the client
   and the flag is then set: once the requests have returned, a row at or
   above the threshold has its flag set and its client has the alert.  A
   channel whose total limit is 0 never alerts.  Once set, a flag is never
   cleared. *)
ThresholdAlert ==
    [][/\ AlertedWhenReached(quotas', notifications', calls')
       /\ \A i \in 1..Len(quotas), ch \in {"bw", "color"} :
              FlagSet(quotas[i], ch) => FlagSet(quotas'[i], ch)
       /\ \A p \in Procs :
              DeductAlert(p)
              => LET alert == [user_id |-> calls[p].client_id, kind |-> AlertKind(AlertType(calls[p])),
                               related_order_id |-> None]
                 IN /\ CopiesIn(alert, notifications') = CopiesIn(alert, notifications) + 1
                    /\ FlagSet(quotas'[calls[p].qid], AlertType(calls[p]))]_vars

\* a row without color allowance, topped up on bw and used to the full: the
\* bw alert was sent and latched, no color alert was
ThresholdAlertWitness ==
    /\ \A p \in Procs : calls[p].pc = "done" /\ calls[p].ok = "success"
    /\ quotas[1].color_limit = 0
    /\ quotas[1].bw_used = 4000
    /\ quotas[1].bw_alert_sent
    /\ ~quotas[1].color_alert_sent
    /\ AlertsSent(1, "bw") >= 1
    /\ AlertsSent(1, "color") = 0

\* the positions of a request inside deduct_quota
InDeduct == {"deduct_lock", "deduct_apply", "alert_bw", "alert_color"}

(* C18: every deduct_quota call releases the row lock of the quota on each of
   its exit paths (success, quota exceeded, exception): a request that is not
   inside the transaction of deduct_quota holds no lock.  So, under fair
   scheduling, every one of a set of concurrent deduct_quota calls for one
   client and month eventually returns: none waits forever for a lock. *)
DeductReturns ==
    /\ [](\A l \in locks : calls[l[2]].pc = "deduct_apply" /\ calls[l[2]].qid = l[1])
    /\ \A p \in Procs : (calls[p].pc \in InDeduct) ~> (calls[p].pc \notin InDeduct)

\* two requests were inside deduct_quota at once, one waiting for the lock
\* of the other; both have returned, one of them refused under the lock
DeductReturnsWitness ==
    /\ \A p \in Procs : calls[p].pc = "done"
    /\ \E p \in Procs : calls[p].error = "Failed to deduct quota: Insufficient quota"
    /\ \E p \in Procs : calls[p].ok = "success"
    /\ locks = {}

\* what the specification asks of the client and of the agent of a request
ClientInvalid(r) ==
    \/ r.client_id \notin DOMAIN Users
    \/ Users[r.client_id].role # "Client"
    \/ ~Users[r.client_id].is_active

AgentInvalid(r) ==
    /\ r.agent_id # None
    /\ \/ r.agent_id \notin DOMAIN Users
       \/ Users[r.agent_id].role # "Agent"
       \/ ~Users[r.agent_id].is_active

\* the failures of create_order that come before the quota check
EarlyErrors ==
    {"Invalid client ID", "Client account is not active", "Duplicate order",
     "Invalid agent ID", "Agent account is not active", "Agent workload limit exceeded"}

(* C21: create_order fails when the client does not exist, does not have the
   Client role or is inactive, and when a given agent does not exist, does
   not have the Agent role or is inactive.  A create_order that fails at the
   client validation, the duplicate detection, the agent validation or the
   workload check has returned and has persisted nothing: no order, no quota
   row, no change of a used counter, no audit entry, no notification. *)
AdmissionValidated ==
    [][\A p \in Procs, r \in AdmissionRequests :
          CreateOrderBegin(p, r)
          => /\ (ClientInvalid(r) \/ AgentInvalid(r))
                   => /\ calls'[p].pc = "done"
                      /\ calls'[p].ok = "failure"
                      /\ calls'[p].error \in EarlyErrors
             /\ calls'[p].error \in EarlyErrors
                   => /\ calls'[p].pc = "done"
                      /\ calls'[p].ok = "failure"
                      /\ calls'[p].order_id = None
                      /\ <<orders, nextOrderId, quotas, topups, auditLog, notifications, locks>>'
                           = <<orders, nextOrderId, quotas, topups, auditLog, notifications, locks>>]_vars

\* a duplicate and a request for an inactive agent were refused: the tables
\* are as they were
AdmissionValidatedWitness ==
    /\ calls[1].error = "Duplicate order"
    /\ calls[2].error = "Agent account is not active"
    /\ \A p \in Procs : calls[p].pc \in {"idle", "done"}
    /\ orders = RunningOrders
    /\ quotas[1].bw_used = 600
    /\ auditLog = << >>
    /\ notifications = EmptyBag

\* the orders that carry an external id
Carrying(os, ext) == {o \in DOMAIN os : os[o].external_order_id = ext}

\* the bw quantities of a set of orders, added up
RECURSIVE SumBw(_, _)
SumBw(os, ids) ==
    IF ids = {} THEN 0
    ELSE LET o == CHOOSE x \in ids : TRUE
         IN os[o].bw_quantity + SumBw(os, ids \ {o})

(* C22: when create_order is given an external_order_id that an existing
   order already carries, in idempotency mode 'reject' it fails with a
   duplicate error and changes nothing; in mode 'skip' it returns the
   existing order, creates no order and consumes no quota.  So, with requests
   repeated one after the other in either mode, an external id is carried by
   at most one order and its quantities are deducted at most once. *)
IdempotentCreate ==
    /\ [][\A p \in Procs, r \in AdmissionRequests :
             (CreateOrderBegin(p, r) /\ ~ClientInvalid(r)
              /\ r.external_order_id # "" /\ Carrying(orders, r.external_order_id) # {})
             => /\ config.CSV_IDEMPOTENCY_MODE = "reject"
                      => /\ calls'[p].pc = "done"
                         /\ calls'[p].ok = "failure"
                         /\ calls'[p].error = "Duplicate order"
                         /\ <<orders, nextOrderId, quotas, topups, auditLog, notifications>>'
                              = <<orders, nextOrderId, quotas, topups, auditLog, notifications>>
                /\ config.CSV_IDEMPOTENCY_MODE = "skip"
                      => /\ calls'[p].pc = "done"
                         /\ calls'[p].ok = "success"
                         /\ calls'[p].order_id \in Carrying(orders, r.external_order_id)
                         /\ <<orders, nextOrderId, quotas, topups, auditLog, notifications>>'
                              = <<orders, nextOrderId, quotas, topups, auditLog, notifications>>]_vars
    /\ [](config.CSV_IDEMPOTENCY_MODE \in {"reject", "skip"}
            => /\ \A r \in AdmissionRequests :
                      r.external_order_id # "" => Cardinality(Carrying(orders, r.external_order_id)) <= 1
               /\ (\A p \in Procs : calls[p].pc \in {"idle", "done"})
                      => quotas[1].bw_used = SumBw(orders, DOMAIN orders))

\* mode 'skip': the order "B" was created, the same request was made again
\* and was answered with that order; its 1900 prints were deducted once
IdempotentCreateWitness ==
    /\ config.CSV_IDEMPOTENCY_MODE = "skip"
    /\ calls[1].ok = "success" /\ calls[1].external_order_id = "B" /\ calls[1].order_id = 3
    /\ calls[2].ok = "success" /\ calls[2].external_order_id = "B" /\ calls[2].order_id = 3
    /\ calls[2].pc = "done"
    /\ DOMAIN orders = {1, 2, 3}
    /\ quotas[1].bw_used = 2500

(* C23: idempotency mode 'upsert' fails closed.  With CSV_IDEMPOTENCY_MODE
   set to 'upsert', or to any value other than 'skip', a create_order whose
   external_order_id an existing order carries is refused as in mode
   'reject': no order is created and no quota is consumed. *)
UpsertFailsClosed ==
    /\ [][\A p \in Procs, r \in AdmissionRequests :
             (CreateOrderBegin(p, r) /\ ~ClientInvalid(r)
              /\ r.external_order_id # "" /\ Carrying(orders, r.external_order_id) # {}
              /\ config.CSV_IDEMPOTENCY_MODE # "skip")
             => /\ calls'[p].pc = "done"
                /\ calls'[p].ok = "failure"
                /\ calls'[p].error = "Duplicate order"]_vars
    /\ [](config.CSV_IDEMPOTENCY_MODE # "skip"
            => \A r \in AdmissionRequests :
                   r.external_order_id # "" => Cardinality(Carrying(orders, r.external_order_id)) <= 1)

(* C24: external_order_id is unique.  In every reachable state no two orders
   carry the same non-null external_order_id, also when two create_order
   calls with the same external_order_id run concurrently. *)
ExternalIdUnique ==
    \A o1, o2 \in DOMAIN orders :
        (orders[o1].external_order_id # "" /\ orders[o1].external_order_id = orders[o2].external_order_id)
        => o1 = o2

\* the orders an agent holds that are not completed
ActiveOrders(os, agent_id) ==
    {o \in DOMAIN os : os[o].agent_id = agent_id /\ os[o].status # "completed"}

\* a request that reaches the workload check: its client and its agent are
\* valid and it was not answered as a duplicate
ReachesWorkloadCheck(r) ==
    /\ ~ClientInvalid(r)
    /\ r.agent_id # None
    /\ ~AgentInvalid(r)
    /\ ~(/\ r.external_order_id # ""
         /\ Carrying(orders, r.external_order_id) # {}
         /\ config.CSV_IDEMPOTENCY_MODE \in {"reject", "skip"})

(* C25: create_order with an agent_id fails with an agent-workload-limit
   error and creates no order if and only if, at the check, the number of
   active orders of the agent (pending, validated or processing; completed
   orders do not count) is at or above the configured maximum. *)
WorkloadChecked ==
    [][\A p \in Procs, r \in AdmissionRequests :
          CreateOrderBegin(p, r)
          => /\ calls'[p].error = "Agent workload limit exceeded"
                   <=> /\ ReachesWorkloadCheck(r)
                       /\ Cardinality(ActiveOrders(orders, r.agent_id))
                             >= config.MAX_ACTIVE_ORDERS_DEFAULT
             /\ calls'[p].error = "Agent workload limit exceeded"
                   => /\ calls'[p].pc = "done"
                      /\ calls'[p].ok = "failure"
                      /\ orders' = orders
                      /\ nextOrderId' = nextOrderId]_vars

\* limit 2: agent 2, with one active and one completed order, was given an
\* order; the next request for the agent was refused
WorkloadCheckedWitness ==
    /\ config.MAX_ACTIVE_ORDERS_DEFAULT = 2
    /\ config.CSV_IDEMPOTENCY_MODE = "reject"
    /\ calls[1].ok = "success" /\ calls[1].agent_id = 2 /\ calls[1].order_id = 3
    /\ calls[2].error = "Agent workload limit exceeded"
    /\ calls[2].pc = "done"
    /\ ActiveOrders(orders, 2) = {1, 3}
    /\ orders[2].agent_id = 2 /\ orders[2].status = "completed"

(* C26: the workload limit as an invariant.  In every interleaving of
   create_order calls with an agent and of assign_order calls on orders that
   have no agent, the number of active orders an agent holds never exceeds
   the configured maximum workload limit. *)
WorkloadBounded ==
    \A a \in DOMAIN Users :
        Cardinality(ActiveOrders(orders, a)) <= config.MAX_ACTIVE_ORDERS_DEFAULT

\* the notifications that tell a user of an unassignment
UnassignedNotices(n, user_id, order_id) ==
    CopiesIn([user_id |-> user_id, kind |-> "unassigned", related_order_id |-> order_id], n)

(* C27: unassigning always succeeds.  assign_order with a null or empty
   agent_id on an existing order succeeds whatever the status and the agent
   of the order; afterwards the order has no agent, an ORDER_UNASSIGNED audit
   entry records the previous agent, the previous agent (if there was one)
   has received a notification, and the status and the quantities of the
   order are unchanged. *)
UnassignSucceeds ==
    [][\A o \in DOMAIN orders, a \in {None, EmptyString} :
          AssignOrder(o, a, 3)
          => LET old == orders[o].agent_id
             IN /\ results'["assign"].ok = "success"
                /\ orders' = [orders EXCEPT ![o].agent_id = None]
                /\ orders'[o].status = orders[o].status
                /\ orders'[o].bw_quantity = orders[o].bw_quantity
                /\ orders'[o].color_quantity = orders[o].color_quantity
                /\ Len(auditLog') = Len(auditLog) + 1
                /\ auditLog'[Len(auditLog')].action = "ORDER_UNASSIGNED"
                /\ auditLog'[Len(auditLog')].details = [order_id |-> o, previous_agent_id |-> old]
                /\ old # None
                      => /\ UnassignedNotices(notifications', old, o)
                              = UnassignedNotices(notifications, old, o) + 1
                         /\ BagCardinality(notifications') = BagCardinality(notifications) + 1
                /\ old = None => notifications' = notifications]_vars

\* a completed order of agent 2 was unassigned, then unassigned again: two
\* entries, one notification
UnassignSucceedsWitness ==
    /\ orders[1].status = "completed"
    /\ orders[1].agent_id = None
    /\ Len(auditLog) = 2
    /\ auditLog[1].action = "ORDER_UNASSIGNED" /\ auditLog[1].details.previous_agent_id = 2
    /\ auditLog[2].action = "ORDER_UNASSIGNED" /\ auditLog[2].details.previous_agent_id = None
    /\ UnassignedNotices(notifications, 2, 1) = 1
    /\ BagCardinality(notifications) = 1
    /\ results["assign"].ok = "success"

\* a user an order can be assigned to
AgentValid(a) ==
    /\ a \in DOMAIN Users
    /\ Users[a].role = "Agent"
    /\ Users[a].is_active

(* C28: assign_order to an existing, active agent is refused for workload if
   and only if the order has no agent and the active orders of the target
   are at or above the maximum; an order that has another agent is reassigned
   to the target whatever the target holds.  An assignment to a missing user,
   to a user who is not an agent or to an inactive one is refused and leaves
   the agent of the order as it was. *)
AssignChecked ==
    [][\A o \in DOMAIN orders, a \in AssignInputs \ {None, EmptyString} :
          AssignOrder(o, a, 3)
          => LET old == orders[o].agent_id
                 atLimit == Cardinality(ActiveOrders(orders, a)) >= config.MAX_ACTIVE_ORDERS_DEFAULT
                 r == results'["assign"]
             IN /\ AgentValid(a)
                      => /\ r.error = "Agent workload limit exceeded" <=> (old = None /\ atLimit)
                         /\ (old # None /\ old # a) => orders'[o].agent_id = a
                         /\ (old = None /\ ~atLimit) => orders'[o].agent_id = a
                         /\ (old = None /\ atLimit) => orders' = orders
                /\ ~AgentValid(a)
                      => /\ r.ok = "failure"
                         /\ r.error \in {"Invalid agent ID", "Agent account is not active"}
                         /\ orders' = orders
                         /\ auditLog' = auditLog
                /\ \A other \in DOMAIN orders \ {o} : orders'[other] = orders[other]]_vars

\* limit 1: order 1 went from agent 2 to agent 6, who held order 2 already;
\* order 2 was then unassigned, and its assignment back to agent 6 refused
AssignCheckedWitness ==
    /\ config.MAX_ACTIVE_ORDERS_DEFAULT = 1
    /\ orders[1].status = "pending"
    /\ orders[1].agent_id = 6
    /\ orders[2].agent_id = None
    /\ Len(auditLog) = 2
    /\ auditLog[1].action = "ORDER_REASSIGNED"
    /\ auditLog[1].details = [order_id |-> 1, agent_id |-> 6, previous_agent_id |-> 2]
    /\ auditLog[2].action = "ORDER_UNASSIGNED"
    /\ results["assign"].error = "Agent workload limit exceeded"

\* the notifications that tell an agent of an assignment
AssignNotices(n, user_id, order_id) ==
    { m \in BagToSet(n) : m.user_id = user_id /\ m.related_order_id = order_id
                           /\ m.kind \notin {"unassigned", "status_change", "created"} }

(* C29: after assign_order has set the agent of an order to A, the audit log
   holds an ORDER_ASSIGNED entry when the order had no agent before and an
   ORDER_REASSIGNED entry otherwise, a notification exists for the new agent
   A, a notification exists for the previous agent when it differs from A,
   and the call reports success. *)
AssignRecorded ==
    [][\A o \in DOMAIN orders, a \in AssignInputs \ {None, EmptyString} :
          (AssignOrder(o, a, 3) /\ auditLog' # auditLog)
          => LET old == orders[o].agent_id
             IN /\ orders'[o].agent_id = a
                /\ auditLog'[Len(auditLog')].action
                      = (IF old = None THEN "ORDER_ASSIGNED" ELSE "ORDER_REASSIGNED")
                /\ AssignNotices(notifications', a, o) # {}
                /\ (old # None /\ old # a) => AssignNotices(notifications', old, o) # {}
                /\ results'["assign"].ok = "success"]_vars

(* C30: no operation available after creation (change_order_status,
   assign_order, unassignment, top-up, the quota operations, the import of
   other rows) changes the bw_quantity, the color_quantity or the client_id
   of an existing order, and an order for which create_order returned success
   is never deleted: the only deletion is the one a create_order makes of its
   own order before it returns a failure. *)
OrderFrame ==
    /\ [][/\ \A o \in DOMAIN orders \cap DOMAIN orders' :
                /\ orders'[o].bw_quantity = orders[o].bw_quantity
                /\ orders'[o].color_quantity = orders[o].color_quantity
                /\ orders'[o].client_id = orders[o].client_id
          /\ \A o \in DOMAIN orders \ DOMAIN orders' :
                \E p \in Procs : /\ calls[p].pc = "compensate"
                                 /\ calls[p].order_id = o
                                 /\ calls'[p].pc = "done"
                                 /\ calls'[p].ok = "failure"]_vars
    /\ [](\A p \in Procs :
             calls[p].ok = "success"
             => /\ calls[p].order_id \in DOMAIN orders
                /\ orders[calls[p].order_id].bw_quantity = calls[p].bw_quantity
                /\ orders[calls[p].order_id].color_quantity = calls[p].color_quantity
                /\ orders[calls[p].order_id].client_id = calls[p].client_id)

\* of two requests one failed in the ledger and deleted its order; the order
\* of the other was validated since and is as it was created
OrderFrameWitness ==
    \E p, q \in Procs :
        /\ calls[p].ok = "success"
        /\ orders[calls[p].order_id].status = "validated"
        /\ orders[calls[p].order_id].bw_quantity = 1250
        /\ calls[q].error = "Failed to deduct quota: Failed to deduct quota: exception"
        /\ calls[q].pc = "done"
        /\ calls[q].order_id \notin DOMAIN orders

(***************************************************************************)
(* Properties of the CSV import.                                           *)
(***************************************************************************)
\* the rows of a file that are valid once the corrections are applied, by
\* their place in the file
ValidAfterCorrections(file, corrections) ==
    {i \in 1..Len(file) : /\ ~RowRaises(file[i])
                          /\ Corrected(RowResult(file, i), corrections).is_valid}

\* the row numbers of a sequence of rows or of row errors
RowNumbers(rows) == [k \in 1..Len(rows) |-> rows[k].row_number]

\* the places i of a set, in rising order, as row numbers i + 1
RECURSIVE InFileOrder(_)
InFileOrder(places) ==
    IF places = {} THEN << >>
    ELSE LET first == CHOOSE i \in places : \A j \in places : i <= j
         IN <<first + 1>> \o InFileOrder(places \ {first})

(* C31: a row failure never aborts the batch.  When validate_and_import is
   called on an import, the rows that are valid after the corrections are
   the ones handed to create_order, in file order; each is handed over once,
   whether or not earlier rows failed; a row create_order refuses adds an
   error with its row number, a row it accepts adds the id of the order. *)
RowFailureIsolated ==
    [][/\ \A cs \in CorrectionInputs :
            ValidateAndImportBegin(1, 3, cs)
            => LET valid == ValidAfterCorrections(csvImports[1].file, cs)
               IN valid # {} => /\ csvCall'.pc = "import"
                                /\ csvCall'.idx = 1
                                /\ RowNumbers(csvCall'.rows) = InFileOrder(valid)
       /\ ImportRowBegin
            => /\ calls[1].pc = "idle"
               /\ calls'[1].client_id = csvCall.rows[csvCall.idx].client_id
               /\ calls'[1].bw_quantity = int(csvCall.rows[csvCall.idx].data.bw_quantity)
               /\ calls'[1].color_quantity = int(csvCall.rows[csvCall.idx].data.color_quantity)
       /\ ImportRowReturn
            => /\ csvCall'.idx = csvCall.idx + 1
               /\ IF calls[1].ok = "success"
                  THEN /\ csvCall'.imported_orders = Append(csvCall.imported_orders, calls[1].order_id)
                       /\ csvCall'.import_errors = csvCall.import_errors
                  ELSE /\ csvCall'.imported_orders = csvCall.imported_orders
                       /\ RowNumbers(csvCall'.import_errors) =
                              Append(RowNumbers(csvCall.import_errors),
                                     csvCall.rows[csvCall.idx].row_number)
       /\ ImportFinish
            => Len(csvCall.imported_orders) + Len(csvCall.import_errors) = Len(csvCall.rows)
      ]_vars

\* the row numbers a sequence of rows or of row errors names
NumbersIn(rows) == {rows[k].row_number : k \in 1..Len(rows)}

(* C32: the result of a batch accounts for every row.  When
   validate_and_import has returned its result, success_count + error_count
   is the number of rows of the file, and every row that was rejected at
   validation (so never handed to create_order) has an entry in the list of
   row errors. *)
BatchAccounted ==
    (csvCall.pc = "done" /\ csvCall.ok = "success")
    => LET file == csvImports[csvCall.import_id].file
       IN /\ Len(csvCall.imported_orders) + Len(csvCall.import_errors) = Len(file)
          /\ \A i \in 1..Len(file) :
                 (i + 1) \notin NumbersIn(csvCall.rows)
                 => (i + 1) \in NumbersIn(csvCall.import_errors)

\* the request was given no corrections
Uncorrected == DOMAIN csvCall.corrections = {}

(* C33: in a batch without corrections, of the rows that carry the same
   external_order_id only the first can be handed to create_order, and a row
   whose external_order_id is on an order of the store is not handed over:
   these rows are row errors of the validation.  Hence every order such a
   batch saves carries an external_order_id that no order carries yet, or
   none: at most one order per external_order_id. *)
BatchIdsUnique ==
    [][/\ (ValidateAndImportBegin(1, 3, << >>) /\ ~ParseRaises(csvImports[1].file))
            => LET file == csvImports[1].file
               IN \A i \in 1..Len(file) :
                      (/\ file[i].external_order_id # ""
                       /\ \/ \E j \in 1..(i - 1) :
                                 file[j].external_order_id = file[i].external_order_id
                          \/ get_by_external_id(file[i].external_order_id) # None)
                      => /\ (i + 1) \notin NumbersIn(csvCall'.rows)
                         /\ ~RowResult(file, i).is_valid
                         /\ RowResult(file, i).errors # << >>
       /\ (Uncorrected /\ CreateOrderSave(1))
            => \/ calls[1].external_order_id = ""
               \/ get_by_external_id(calls[1].external_order_id) = None
      ]_vars

\* a batch without corrections has been imported from the file with the
\* repeated ids: of the two rows with "B" one became an order, the row with
\* "A" none, and the row without an id was imported too
BatchIdsUniqueWitness ==
    /\ csvCall.pc = "done"
    /\ csvCall.ok = "success"
    /\ Uncorrected
    /\ csvImports[1].file = FileDuplicates
    /\ Cardinality(Carrying(orders, "B")) = 1
    /\ Cardinality(Carrying(orders, "A")) = 1
    /\ NumbersIn(csvCall.rows) = {2, 5}
    /\ Len(csvCall.imported_orders) = 2

(* C34: a batch with no valid row after the corrections is a hard failure.
   validate_and_import returns the failure 'No valid rows to import' at once:
   it creates no order, uses no quota, and leaves the status of the import
   as it was (pending_validation for an import that was pending); the
   request is over and hands no row to create_order. *)
NoValidRowsFails ==
    /\ [][\A cs \in CorrectionInputs :
            (/\ ValidateAndImportBegin(1, 3, cs)
             /\ ~ParseRaises(csvImports[1].file)
             /\ ValidAfterCorrections(csvImports[1].file, cs) = {})
            => /\ csvCall'.pc = "done"
               /\ csvCall'.ok = "failure"
               /\ csvCall'.error = "No valid rows to import"
               /\ orders' = orders
               /\ nextOrderId' = nextOrderId
               /\ quotas' = quotas
               /\ csvImports'[1].status = csvImports[1].status
          ]_vars
    /\ [](csvCall.error = "No valid rows to import"
            => /\ csvCall.pc = "done"
               /\ calls[1].pc = "idle"
               /\ csvCall.imported_orders = << >>
               /\ (csvCall.n = 1 => /\ csvImports[1].status # "validated"
                                    /\ orders = RunningOrders
                                    /\ quotas[1].bw_used = 600))

\* the file without a valid row has been submitted once, with a correction
\* that changes none of its invalid rows into a valid one: the request
\* failed, the import is pending, the orders and the ledger are untouched
NoValidRowsFailsWitness ==
    /\ csvCall.pc = "done"
    /\ csvCall.n = 1
    /\ csvCall.ok = "failure"
    /\ csvCall.error = "No valid rows to import"
    /\ DOMAIN csvCall.corrections = {StrKey(4)}
    /\ csvImports[1].file = FileNoValidRows
    /\ csvImports[1].status = "pending_validation"
    /\ csvImports[1].row_count = 4
    /\ orders = RunningOrders
    /\ quotas[1].bw_used = 600

(* C35: corrections enable a correction loop.  The values handed to
   create_order for a row are those of its data after the corrections, the
   client included; so when the third row of the Scenario E file (row
   number 4, whose client_id names no user) is corrected to client 1, the
   row is imported like the others: five orders, no error for row 4. *)
CorrectionUsed ==
    /\ [][ImportRowBegin
            => LET row == csvCall.rows[csvCall.idx]
               IN /\ calls'[1].client_id = LookupUser(row.data.client_id)
                  /\ calls'[1].agent_id = LookupUser(row.data.agent_id)
                  /\ calls'[1].bw_quantity = int(row.data.bw_quantity)
                  /\ calls'[1].color_quantity = int(row.data.color_quantity)
          ]_vars
    /\ []((/\ csvCall.pc = "done"
           /\ csvCall.ok = "success"
           /\ csvCall.n = 1
           /\ csvImports[1].file = FileScenarioE
           /\ IntKey(4) \in DOMAIN csvCall.corrections)
          => /\ 4 \notin NumbersIn(csvCall.import_errors)
             /\ Len(csvCall.imported_orders) = 5)

(***************************************************************************)
(* Properties that span operations.                                        *)
(***************************************************************************)
\* the quantities of a channel over a set of orders, added up
RECURSIVE SumOrders(_, _, _)
SumOrders(os, ids, channel) ==
    IF ids = {} THEN 0
    ELSE LET o == CHOOSE x \in ids : TRUE
         IN (IF channel = "bw" THEN os[o].bw_quantity ELSE os[o].color_quantity)
            + SumOrders(os, ids \ {o}, channel)

OrdersOf(os, client_id) == {o \in DOMAIN os : os[o].client_id = client_id}

NoCallInProgress == \A p \in Procs : calls[p].pc \in {"idle", "done"}

(* C36: ledger consistency.  Starting with nothing used and no orders,
   whenever no create_order request is in progress and refund_quota has not
   been called, the bw_used of a client's quota row of the month is the sum
   of bw_quantity over the client's orders, and color_used the sum of
   color_quantity (nothing is used where there is no row). *)
LedgerConsistent ==
    (NoCallInProgress /\ nRefunds = 0)
    => \A u \in Clients :
           /\ SumOrders(orders, OrdersOf(orders, u), "bw")
                = (IF HasQuota(u) THEN CurrentQuota(u).bw_used ELSE 0)
           /\ SumOrders(orders, OrdersOf(orders, u), "color")
                = (IF HasQuota(u) THEN CurrentQuota(u).color_used ELSE 0)

(* C37: an order that is saved but not yet paid for does not affect other
   requests.  The order of a create_order request that ends up failing on
   quota is never the reason why another create_order or an assign_order is
   refused for the workload of its agent: once every request has returned, a
   request that was refused with 'Agent workload limit exceeded' for agent 2
   is matched by active orders of agent 2, as many as the limit. *)
WorkloadIsolated ==
    (/\ NoCallInProgress
     /\ \/ results["assign"].error = "Agent workload limit exceeded"
        \/ \E p \in Procs : /\ calls[p].agent_id = 2
                            /\ calls[p].error = "Agent workload limit exceeded")
    => get_active_orders_count(2) >= config.MAX_ACTIVE_ORDERS_DEFAULT

\* the ORDER_STATUS_CHANGE entries of an order, in the order of the log
StatusEntries(order_id) ==
    SelectSeq(auditLog, LAMBDA e : /\ e.action = "ORDER_STATUS_CHANGE"
                                   /\ e.details.order_id = order_id)

(* C38: the ORDER_STATUS_CHANGE entries of an order form a chain.  The first
   has old_status pending, each later one starts from the new_status of the
   one before, and no transition is recorded twice, in every interleaving of
   concurrent change_order_status requests on the order. *)
StatusChain ==
    \A o \in 1..nextOrderId :
        LET es == StatusEntries(o)
        IN /\ es # << >> => es[1].details.old_status = "pending"
           /\ \A k \in 2..Len(es) : es[k].details.old_status = es[k - 1].details.new_status
           /\ \A j, k \in 1..Len(es) :
                  (/\ es[j].details.old_status = es[k].details.old_status
                   /\ es[j].details.new_status = es[k].details.new_status) => j = k

(* C39: an assign_order request that reports an error has changed nothing.
   Whenever the response is not a success, the agent_id of the order is what
   it was before the request and the request has appended no ORDER_ASSIGNED
   or ORDER_REASSIGNED entry to the audit log. *)
AssignErrorClean ==
    [][\A o \in DOMAIN orders \cup {nextOrderId}, a \in AssignInputs :
          (AssignOrder(o, a, 3) /\ results'["assign"].ok # "success")
          => /\ orders' = orders
             /\ auditLog' = auditLog
      ]_vars

\* the ledger counters of every quota row
Used == [i \in 1..Len(quotas) |-> <<quotas[i].bw_used, quotas[i].color_used>>]

(* C40: a CSV import is committed at most once.  Its status leaves
   pending_validation for validated or for rejected and then never changes;
   and a validate_and_import request made of an import that is already
   validated creates no order and uses no quota (requests are made one after
   the other, so a request at work on a validated import was made after the
   validation). *)
ImportCommittedOnce ==
    [][/\ csvImports[1].status # "pending_validation"
            => csvImports'[1].status = csvImports[1].status
       /\ (csvImports[1].status = "validated" /\ csvCall.pc = "import")
            => /\ orders' = orders
               /\ Used' = Used
      ]_vars
====
